---- MODULE Spec2Model ----
(***************************************************************************)
(* Fuel-Route-Intelligence: the fuel-stop planners of                      *)
(* routing/services_enhanced.py (EnhancedFuelOptimizationService) and of   *)
(* routing/services.py (FuelOptimizationService).                          *)
(*                                                                         *)
(* Arithmetic.  The source computes with Python floats; the model uses     *)
(* exact fixed-point integers:                                             *)
(*   distance  1 unit = 1/250 mile     (DistUnitsPerMile)                  *)
(*   fuel      1 unit = 1/2500 gallon  (FuelUnitsPerGallon)                *)
(*   price     1 unit = 1/1000 dollar  (PriceUnitsPerDollar)               *)
(*   cost      1 unit = fuel unit * price unit = 1/2500000 dollar          *)
(* so that distance / mpg and gallons * price are exact, and round(x, 2)   *)
(* really rounds (two projected distances 0.004 mile apart round to the    *)
(* same hundredth).  Rounded values are integers counting hundredths       *)
(* (thousandths for price_per_gallon).                                     *)
(***************************************************************************)
EXTENDS Integers, Sequences, FiniteSets, TLC

\* ------------------------------------------------------------------ units
DistUnitsPerMile == 25 * 10
FuelUnitsPerGallon == 2500 * 1
PriceUnitsPerDollar == 100 * 10
CostUnitsPerCent == (FuelUnitsPerGallon * PriceUnitsPerDollar) \div 100

Miles(m) == m * DistUnitsPerMile

\* ------------------------------------------------------------ the vehicle
\* settings.VEHICLE_RANGE_MILES (default 500), in distance units
vehicle_range == Miles(500)

\* settings.VEHICLE_MPG (default 10), miles per gallon
vehicle_mpg == 10

\* self.tank_capacity = self.vehicle_range / self.vehicle_mpg, in fuel units
tank_capacity ==
    (vehicle_range * FuelUnitsPerGallon) \div (DistUnitsPerMile * vehicle_mpg)

\* effective_range = self.vehicle_range * self.safety_margin, margin 0.9
effective_range == (vehicle_range * 9) \div 10

\* max_iterations = 1000  # Prevent infinite loops
max_iterations == 1000

\* fuel (fuel units) burnt over a distance (distance units): d / vehicle_mpg
FuelFor(d) == (d * FuelUnitsPerGallon) \div (DistUnitsPerMile * vehicle_mpg)

\* distance (distance units) a quantity of fuel carries: fuel * vehicle_mpg
DistanceOn(fuel) == (fuel * vehicle_mpg * DistUnitsPerMile) \div FuelUnitsPerGallon

\* --------------------------------------------------------------- rounding
\* Python round(): the nearest multiple, a tie going to the even one.
\* RoundHalfEven(n, d) is n / d rounded to an integer (n may be negative).
RoundHalfEven(n, d) ==
    LET q == n \div d
        r == n % d
    IN  IF 2 * r < d THEN q
        ELSE IF 2 * r > d THEN q + 1
        ELSE IF q % 2 = 0 THEN q ELSE q + 1

\* round(distance, 2): hundredths of a mile
RoundDistance(d) == RoundHalfEven(d * 100, DistUnitsPerMile)

\* round(gallons, 2): hundredths of a gallon
RoundGallons(g) == RoundHalfEven(g * 100, FuelUnitsPerGallon)

\* round(cost, 2): cents
RoundCost(c) == RoundHalfEven(c, CostUnitsPerCent)

\* round(price, 3): thousandths of a dollar
RoundPrice(p) == RoundHalfEven(p * 1000, PriceUnitsPerDollar)

\* ---------------------------------------------------------------- inputs
\* most stations handed to one planning run
MaxStations == 3

\* FuelStation.retail_price (price units): 3.00, 3.50, 4.00 dollars
PriceSet == { 3000, 3500, 4000 }

\* projected distance_from_start of a station, whole miles (distance units)
PositionSet == { Miles(100), Miles(300), Miles(450), Miles(500), Miles(700) }

\* total_distance of the route (distance units)
TotalDistanceSet == { Miles(0), Miles(500), Miles(600), Miles(1100) }

\* A station as the planner sees it: whether FuelStation.coordinates is set,
\* where _map_stations_to_route projects it, and its retail price.
StationAttrs ==
    [coordinates : {TRUE}, proj : PositionSet, retail_price : PriceSet]
    \cup { [coordinates |-> FALSE, proj |-> 0, retail_price |-> 3000] }

\* Projections that are no whole number of hundredths of a mile (route
\* vertices lie at arbitrary float distances): 99.996, 100.004, 300.052 and
\* 700 miles.
FinePositionSet ==
    { Miles(100) - 1, Miles(100) + 1, Miles(300) + 13, Miles(700) }

FinePriceSet == { 3000, 3500 }

FineTotalDistanceSet == { Miles(600), Miles(1100) }

FineStationAttrs ==
    [coordinates : {TRUE}, proj : FinePositionSet, retail_price : FinePriceSet]

\* A long route with a station every mile, all at one price: more stations
\* than the planning loop has iterations.
ChainStations ==
    [i \in 1..(max_iterations + 1) |->
        [id |-> i, coordinates |-> TRUE, proj |-> Miles(i), retail_price |-> 3000]]

ChainTotalDistance == Miles(max_iterations + 600)

VARIABLES
    total_distance,      \* argument: route length
    available_stations,  \* argument: the caller's station list
    station_positions,   \* working list of projected stations
    selected_stops,      \* stops made so far (returned records)
    current_fuel,        \* fuel units in the tank
    current_position,    \* distance units from the start
    total_cost,          \* unrounded running cost
    total_gallons,       \* unrounded running fuel volume
    iteration,           \* loop counter
    last_window,         \* candidate window of the latest stop (ghost)
    pc,                  \* "idle", "loop", "done"
    planner,             \* whose find_optimal_fuel_stops runs: "none",
                         \* "enhanced" (services_enhanced.py), "basic"
    outcome,             \* "none", "returned" or the exception raised
    result               \* the returned tuple

vars == << total_distance, available_stations, station_positions, selected_stops,
           current_fuel, current_position, total_cost, total_gallons, iteration,
           last_window, pc, planner, outcome, result >>

NoResult == [stops |-> << >>, total_cost |-> 0, total_gallons |-> 0]

\* the result of an earlier call with the same stations in another list order
VARIABLES
    previous_run

\* retry_on_failure around geocode_address / get_route
VARIABLES
    wrapped,             \* the decorated function that is called
    max_retries,         \* decorator argument
    input_valid,         \* the call's arguments pass validation
    cached,              \* the Django cache holds a result for the arguments
    retries,             \* wrapper local
    current_delay,       \* wrapper local, seconds
    invocations,         \* times the wrapped function was entered (ghost)
    contacts,            \* requests.get calls made (ghost)
    slept,               \* seconds spent in time.sleep (ghost)
    attempts,            \* what each invocation met and how it ended (ghost)
    retry_pc,            \* "idle", "running", "done"
    retry_outcome        \* "none", "returned", "None" or the exception raised

retryVars == << wrapped, max_retries, input_valid, cached, retries,
                current_delay, invocations, contacts, slept, attempts,
                retry_pc, retry_outcome >>

\* EnhancedFuelRoutingService.plan_route and the Django cache
VARIABLES
    cache,               \* cache key -> stored plan
    plan_calls           \* the plan_route calls in progress

cacheVars == << cache, plan_calls >>

\* decode_polyline
VARIABLES
    encoded,             \* argument
    decoded              \* what the call gave

decodeVars == << encoded, decoded >>

\* find_stations_near_route and calculate_cumulative_distances
VARIABLES
    catalog,             \* the FuelStation table
    route_points,        \* argument
    stations_near_route, \* what find_stations_near_route gave
    cumulative,          \* what calculate_cumulative_distances gave
    station_map          \* the stations given to _map_stations_to_route and
                         \* what it gave

geoVars ==
    << catalog, route_points, stations_near_route, cumulative, station_map >>

\* RouteValidator.validate_vehicle_parameters and the service constructor
VARIABLES
    profile,             \* mpg, range and tank capacity under validation
    service              \* what validation or construction gave

vehicleVars == << profile, service >>

\* two calls of find_optimal_fuel_stops in progress at the same time
VARIABLES
    given_stations,      \* the station list both calls were given
    lists,               \* the working lists in memory, by identity
    runs                 \* the locals of each call

runVars == << given_stations, lists, runs >>

\* RateLimitMiddleware.process_request for the requests of one client
VARIABLES
    minute_key,          \* cache entry rate_limit:minute:<client>, 0: absent
    hour_key,            \* cache entry rate_limit:hour:<client>, 0: absent
    handlers,            \* the locals of each request being processed
    admitted_minute,     \* requests that wrote the present minute entry (ghost)
    admitted_hour,       \* requests that wrote the present hour entry (ghost)
    served,              \* requests received so far
    overlaps,            \* requests received while another was in progress
    expiries             \* cache entries that have timed out so far

limitVars == << minute_key, hour_key, handlers, admitted_minute, admitted_hour,
                served, overlaps, expiries >>

\* what each group of operations leaves alone
notPlanner ==
    << retryVars, cacheVars, decodeVars, geoVars, vehicleVars, runVars,
       limitVars >>

notRetry ==
    << vars, previous_run, cacheVars, decodeVars, geoVars, vehicleVars, runVars,
       limitVars >>

notCache ==
    << vars, previous_run, retryVars, decodeVars, geoVars, vehicleVars, runVars,
       limitVars >>

notDecode ==
    << vars, previous_run, retryVars, cacheVars, geoVars, vehicleVars, runVars,
       limitVars >>

notGeo ==
    << vars, previous_run, retryVars, cacheVars, decodeVars, vehicleVars, runVars,
       limitVars >>

notVehicle ==
    << vars, previous_run, retryVars, cacheVars, decodeVars, geoVars, runVars,
       limitVars >>

notRun ==
    << vars, previous_run, retryVars, cacheVars, decodeVars, geoVars, vehicleVars,
       limitVars >>

notLimit ==
    << vars, previous_run, retryVars, cacheVars, decodeVars, geoVars, vehicleVars,
       runVars >>

\* ------------------------------------------------- sequence helper operators
\* list.sort(key=...) is stable: insert each element after its equals.
RECURSIVE InsertByDistance(_, _)
InsertByDistance(sorted, x) ==
    IF sorted = << >> THEN << x >>
    ELSE IF Head(sorted).distance_from_start <= x.distance_from_start
         THEN << Head(sorted) >> \o InsertByDistance(Tail(sorted), x)
         ELSE << x >> \o sorted

RECURSIVE SortByDistanceFrom(_, _)
SortByDistanceFrom(sorted, rest) ==
    IF rest = << >> THEN sorted
    ELSE SortByDistanceFrom(InsertByDistance(sorted, Head(rest)), Tail(rest))

\* (mutant) the sort is left out: the working list keeps the caller's order
SortByDistanceOmitted(positions) == positions

\* station_positions.sort(key=lambda x: x['distance_from_start']); a list
\* already in order is its own stable sort
SortByDistance(positions) ==
    IF \A k \in 1..(Len(positions) - 1) :
           positions[k].distance_from_start <= positions[k + 1].distance_from_start
    THEN positions
    ELSE SortByDistanceFrom(<< >>, positions)

\* (mutant) the nearest candidate is taken, whatever its price
MinByPriceNearest(reachable) == reachable[1]

\* min(reachable_stations, key=lambda x: x['price']): the first of the minima
MinByPrice(reachable) ==
    LET i == CHOOSE i \in 1..Len(reachable) :
                 \A j \in 1..Len(reachable) :
                     \/ reachable[j].price > reachable[i].price
                     \/ reachable[j].price = reachable[i].price /\ j >= i
    IN  reachable[i]

\* list.remove(x): drops the first element equal to x
Remove(positions, x) ==
    LET i == CHOOSE i \in 1..Len(positions) :
                 positions[i] = x /\ \A j \in 1..(i - 1) : positions[j] # x
    IN  [k \in 1..(Len(positions) - 1) |->
            IF k < i THEN positions[k] ELSE positions[k + 1]]

\* _map_stations_to_route: stations without coordinates are skipped, the
\* others keep the input order.  The nearest-vertex search is the station's
\* proj field.
MapStationsToRoute(stations) ==
    LET withCoordinates == SelectSeq(stations, LAMBDA s : s.coordinates)
    IN  [k \in 1..Len(withCoordinates) |->
            [station |-> withCoordinates[k].id,
             distance_from_start |-> withCoordinates[k].proj,
             price |-> withCoordinates[k].retail_price]]


\* (mutant) the window is closed at the current position
ReachableStationsClosed(positions, position, range) ==
    SelectSeq(positions,
              LAMBDA sp : /\ position <= sp.distance_from_start
                          /\ sp.distance_from_start <= position + range)

\* reachable_stations: the stations of the working list whose projected
\* distance lies in (position, position + range]
ReachableStations(positions, position, range) ==
    SelectSeq(positions,
              LAMBDA sp : /\ position < sp.distance_from_start
                          /\ sp.distance_from_start <= position + range)

\* min([sp for sp in station_positions if sp['distance_from_start'] >
\* current_position], key=lambda x: x['distance_from_start'], default=None):
\* the list holding the first of the nearest stations ahead, or the empty list
NearestAhead(positions, position) ==
    LET ahead == SelectSeq(positions,
                           LAMBDA sp : sp.distance_from_start > position)
    IN  IF ahead = << >> THEN << >>
        ELSE LET i == CHOOSE i \in 1..Len(ahead) :
                          \A j \in 1..Len(ahead) :
                              \/ ahead[j].distance_from_start >
                                     ahead[i].distance_from_start
                              \/ /\ ahead[j].distance_from_start =
                                        ahead[i].distance_from_start
                                 /\ j >= i
             IN  << ahead[i] >>

\* The candidate window of one iteration: the safety-margin window, or the
\* full vehicle_range window when the first is empty.
CandidateWindow(positions, position) ==
    IF ReachableStations(positions, position, effective_range) # << >>
    THEN ReachableStations(positions, position, effective_range)
    ELSE ReachableStations(positions, position, vehicle_range)

\* the dict appended to selected_stops
StopRecord(best_station, gallons_to_add, cost) ==
    [station_id |-> best_station.station,
     price_per_gallon |-> RoundPrice(best_station.price),
     gallons |-> RoundGallons(gallons_to_add),
     cost |-> RoundCost(cost),
     distance_from_start |-> RoundDistance(best_station.distance_from_start)]

\* the while condition of the planning loop
LoopCondition == current_position < total_distance /\ iteration < max_iterations

\* (mutant) the destination check is strict
CanReachDestinationStrict ==
    DistanceOn(current_fuel) > total_distance - current_position

\* the check "if distance_on_current_fuel >= remaining_distance: break"
CanReachDestination ==
    DistanceOn(current_fuel) >= total_distance - current_position

NoWindow == [from |-> 0, stations |-> << >>, best |-> 0, fuel_on_arrival |-> 0]

\* ------------------------------------------------------------------ inputs
\* a station list as the caller passes it: station i of the list has id i
StationList(n, a) ==
    [i \in 1..n |-> [id |-> i, coordinates |-> a[i].coordinates,
                     proj |-> a[i].proj, retail_price |-> a[i].retail_price]]

\* the Django cache with no entry: a mapping with an empty set of keys
EmptyCache == << >>

\* the plan_route calls that may run at the same time
Requests == { 1, 2 }

\* values of the locals of plan_route that are not assigned yet
NoCoords == << >>

NoRouteData == [geometry |-> << >>, distance_miles |-> 0, duration_seconds |-> 0]

NoPlan == [start_location |-> << >>, end_location |-> << >>,
           start_coordinates |-> NoCoords, end_coordinates |-> NoCoords,
           route |-> NoRouteData, fuel_stops |-> << >>,
           summary |-> [total_distance_miles |-> 0, total_fuel_cost |-> 0,
                        total_fuel_gallons |-> 0, number_of_stops |-> 0,
                        stations_searched |-> 0]]

\* a plan_route call that has not been made
IdleCall == [pc |-> "idle", use_cache |-> TRUE,
             start_location |-> << >>, end_location |-> << >>,
             cache_key |-> << >>, hit |-> FALSE,
             start_coords |-> NoCoords, end_coords |-> NoCoords,
             route_data |-> NoRouteData, stations_found |-> 0,
             calls |-> 0, steps |-> << >>,
             outcome |-> "none", result |-> NoPlan]

NoCalls == [r \in Requests |-> IdleCall]

\* no earlier run to compare with
NoRun == [made |-> FALSE, outcome |-> "none", stations |-> << >>,
          total_cost |-> 0, total_gallons |-> 0]

\* a function that has not been called has produced nothing
NotCalled == [outcome |-> "none", value |-> << >>]

\* _map_stations_to_route has not been called
NotMapped == [stations |-> << >>, outcome |-> "none", value |-> << >>]

\* no vehicle profile has been put to validation
NoProfile == [call |-> "none", mpg |-> 0, range_miles |-> 0,
              tank_capacity |-> << >>]

\* a find_optimal_fuel_stops call that has not been made
IdleRun == [pc |-> "idle", total_distance |-> 0, list |-> 0,
            selected_stops |-> << >>, current_fuel |-> 0,
            current_position |-> 0, total_cost |-> 0, total_gallons |-> 0,
            iteration |-> 0, outcome |-> "none", result |-> NoResult]

\* no request is being processed
IdleHandler == [pc |-> "idle", minute_count |-> 0, hour_count |-> 0,
                response |-> "none"]

\* the service is constructed and no planning call has been made
Init ==
    /\ total_distance = 0
    /\ available_stations = << >>
    /\ station_positions = << >>
    /\ selected_stops = << >>
    /\ current_fuel = 0
    /\ current_position = 0
    /\ total_cost = 0
    /\ total_gallons = 0
    /\ iteration = 0
    /\ last_window = NoWindow
    /\ pc = "idle"
    /\ planner = "none"
    /\ outcome = "none"
    /\ result = NoResult
    /\ previous_run = NoRun
    /\ wrapped = "none"
    /\ max_retries = 0
    /\ input_valid = TRUE
    /\ cached = FALSE
    /\ retries = 0
    /\ current_delay = 0
    /\ invocations = 0
    /\ contacts = 0
    /\ slept = 0
    /\ attempts = << >>
    /\ retry_pc = "idle"
    /\ retry_outcome = "none"
    /\ cache = EmptyCache
    /\ plan_calls = NoCalls
    /\ encoded = << >>
    /\ decoded = NotCalled
    /\ catalog = {}
    /\ route_points = << >>
    /\ stations_near_route = NotCalled
    /\ cumulative = NotCalled
    /\ station_map = NotMapped
    /\ profile = NoProfile
    /\ service = "none"
    /\ given_stations = << >>
    /\ lists = [r \in Requests |-> << >>]
    /\ runs = [r \in Requests |-> IdleRun]
    /\ minute_key = 0
    /\ hour_key = 0
    /\ handlers = [h \in Requests |-> IdleHandler]
    /\ admitted_minute = 0
    /\ admitted_hour = 0
    /\ served = 0
    /\ overlaps = 0
    /\ expiries = 0

\* --------------------------- EnhancedFuelOptimizationService (enhanced planner)
\* (mutant) the loop is left with break, as services.py does, and the stops
\* made so far are returned
RaiseAsBreak(exception) ==
    /\ pc' = "done"
    /\ outcome' = "returned"
    /\ result' = [stops |-> selected_stops,
                  total_cost |-> RoundHalfEven(total_cost, CostUnitsPerCent),
                  total_gallons |->
                      RoundHalfEven(total_gallons * 100, FuelUnitsPerGallon)]

\* raise exception: the call ends without a result
Raise(exception) ==
    /\ pc' = "done"
    /\ outcome' = exception
    /\ result' = NoResult

\* the sum of f[k] for k in lo..hi
RECURSIVE SumOver(_, _, _)
SumOver(f, lo, hi) ==
    IF lo > hi THEN 0
    ELSE IF lo = hi THEN f[lo]
    ELSE LET mid == (lo + hi) \div 2
         IN  SumOver(f, lo, mid) + SumOver(f, mid + 1, hi)

\* sums of the 'gallons' and of the 'cost' values of a stop list
SumOfStopGallons(stops) ==
    SumOver([k \in 1..Len(stops) |-> stops[k].gallons], 1, Len(stops))

SumOfStopCosts(stops) ==
    SumOver([k \in 1..Len(stops) |-> stops[k].cost], 1, Len(stops))

\* (mutant) the totals are the sums of the rounded values of the stops
ReturnSumOfStops ==
    /\ pc' = "done"
    /\ outcome' = "returned"
    /\ result' = [stops |-> selected_stops,
                  total_cost |-> SumOfStopCosts(selected_stops),
                  total_gallons |-> SumOfStopGallons(selected_stops)]

\* return (selected_stops, round(total_cost, 2), round(total_gallons, 2))
Return ==
    /\ pc' = "done"
    /\ outcome' = "returned"
    /\ result' = [stops |-> selected_stops,
                  total_cost |-> RoundCost(total_cost),
                  total_gallons |-> RoundGallons(total_gallons)]

\* find_optimal_fuel_stops(route_points, distance, stations), from the call to
\* the first test of the loop
Enter(distance, stations) ==
    /\ planner' = "enhanced"
    /\ total_distance' = distance
    /\ available_stations' = stations
    /\ IF stations = << >>
       THEN /\ Raise("NoFuelStationsFoundError")
            /\ UNCHANGED << station_positions, current_fuel >>
            /\ UNCHANGED << selected_stops, current_position, total_cost,
                            total_gallons, iteration, last_window >>
       ELSE /\ station_positions' = SortByDistance(MapStationsToRoute(stations))
            /\ selected_stops' = << >>
            /\ current_fuel' = tank_capacity
            /\ current_position' = 0
            /\ total_cost' = 0
            /\ total_gallons' = 0
            /\ iteration' = 0
            /\ last_window' = NoWindow
            /\ pc' = "loop"
            /\ outcome' = "none"
            /\ result' = NoResult
    /\ UNCHANGED notPlanner

Call ==
    /\ pc = "idle"
    /\ \/ \E distance \in TotalDistanceSet, n \in 0..MaxStations :
              \E a \in [1..n -> StationAttrs] :
                  Enter(distance, StationList(n, a))
       \/ \E distance \in FineTotalDistanceSet, n \in 1..MaxStations :
              \E a \in [1..n -> FineStationAttrs] :
                  Enter(distance, StationList(n, a))
    /\ UNCHANGED previous_run

\* the same call on the long chain of stations
CallChain ==
    /\ pc = "idle"
    /\ Enter(ChainTotalDistance, ChainStations)
    /\ UNCHANGED previous_run

\* one pass through the body of the while loop
Iterate ==
    /\ pc = "loop"
    /\ planner = "enhanced"
    /\ LoopCondition
    /\ iteration' = iteration + 1
    /\ UNCHANGED << total_distance, available_stations, planner, previous_run,
                    notPlanner >>
    /\ IF CanReachDestination
       THEN /\ Return
            /\ UNCHANGED << station_positions, selected_stops, current_fuel,
                            current_position, total_cost, total_gallons,
                            last_window >>
       ELSE LET reachable_stations ==
                    CandidateWindow(station_positions, current_position)
            IN  IF reachable_stations = << >>
                THEN /\ Raise("InsufficientRangeError")
                     /\ UNCHANGED << station_positions, selected_stops,
                                     current_fuel, current_position, total_cost,
                                     total_gallons, last_window >>
                ELSE LET best_station == MinByPrice(reachable_stations)
                         distance_to_station ==
                             best_station.distance_from_start - current_position
                         fuel_needed == FuelFor(distance_to_station)
                         fuel_on_arrival == current_fuel - fuel_needed
                         gallons_to_add == tank_capacity - fuel_on_arrival
                         cost == gallons_to_add * best_station.price
                     IN  IF fuel_on_arrival < 0
                         THEN /\ Raise("InsufficientRangeError")
                              /\ current_fuel' = fuel_on_arrival
                              /\ UNCHANGED << station_positions, selected_stops,
                                              current_position, total_cost,
                                              total_gallons, last_window >>
                         ELSE /\ selected_stops' =
                                     Append(selected_stops,
                                            StopRecord(best_station,
                                                       gallons_to_add, cost))
                              /\ total_cost' = total_cost + cost
                              /\ total_gallons' = total_gallons + gallons_to_add
                              /\ current_fuel' = tank_capacity
                              /\ current_position' =
                                     best_station.distance_from_start
                              /\ station_positions' =
                                     Remove(station_positions, best_station)
                              /\ last_window' =
                                     [from |-> current_position,
                                      stations |-> reachable_stations,
                                      best |-> best_station,
                                      fuel_on_arrival |-> fuel_on_arrival]
                              /\ UNCHANGED << pc, outcome, result >>

\* the while condition is false: fall through to the return statement
ExitLoop ==
    /\ pc = "loop"
    /\ planner = "enhanced"
    /\ ~LoopCondition
    /\ Return
    /\ UNCHANGED << planner, total_distance, available_stations, station_positions,
                    selected_stops, current_fuel, current_position, total_cost,
                    total_gallons, iteration, last_window >>
    /\ UNCHANGED << previous_run, notPlanner >>

Next == Call \/ Iterate \/ ExitLoop

Spec == Init /\ [][Next]_vars

\* find_optimal_fuel_stops is called once more with the same route and the
\* same stations in another list order (find_stations_near_route returns
\* list(set(...))); what the first call gave is kept for comparison
CallAgain ==
    /\ pc = "done"
    /\ ~previous_run.made
    /\ previous_run' =
           [made |-> TRUE, outcome |-> outcome,
            stations |-> [k \in 1..Len(result.stops) |->
                             result.stops[k].station_id],
            total_cost |-> result.total_cost,
            total_gallons |-> result.total_gallons]
    /\ \E order \in [1..Len(available_stations) -> 1..Len(available_stations)] :
           /\ \A i, j \in 1..Len(available_stations) :
                  i # j => order[i] # order[j]
           /\ \E i \in 1..Len(available_stations) : order[i] # i
           /\ Enter(total_distance,
                    [i \in 1..Len(available_stations) |->
                        available_stations[order[i]]])

NextOrder == Call \/ Iterate \/ ExitLoop \/ CallAgain

SpecOrder == Init /\ [][NextOrder]_<< vars, previous_run >>

\* the planner on an input with more stations than the loop has iterations
NextCap == CallChain \/ Iterate \/ ExitLoop

SpecCap == Init /\ [][NextCap]_vars

\* ------------------------------------ the enhanced planner in float arithmetic
\* Python floats are binary floating-point numbers: the result of every
\* operation is rounded to the nearest number with a fixed count of
\* significant bits, a tie going to the even one.  A double carries 53 bits;
\* the format below carries MantissaBits, which makes every distance up to
\* vehicle_range a whole number of distance units and rounds sums above
\* 2^MantissaBits units, as a double rounds 300.2 + 500.0.
MantissaBits == 17

RECURSIVE TwoTo(_)
TwoTo(n) == IF n = 0 THEN 1 ELSE 2 * TwoTo(n - 1)

\* the spacing of the representable numbers around x >= 0
RECURSIVE UlpFrom(_, _)
UlpFrom(x, u) == IF x < TwoTo(MantissaBits) * u THEN u ELSE UlpFrom(x, 2 * u)

\* the representable number nearest to x
Fl(x) ==
    LET u == UlpFrom(IF x < 0 THEN -x ELSE x, 1)
    IN  RoundHalfEven(x, u) * u

\* current_position < sp['distance_from_start'] <= current_position + range,
\* the sum being a float
FloatReachableStations(positions, position, range) ==
    SelectSeq(positions,
              LAMBDA sp : /\ position < sp.distance_from_start
                          /\ sp.distance_from_start <= Fl(position + range))

FloatCandidateWindow(positions, position) ==
    IF FloatReachableStations(positions, position, Fl(effective_range)) # << >>
    THEN FloatReachableStations(positions, position, Fl(effective_range))
    ELSE FloatReachableStations(positions, position, vehicle_range)

\* distance_on_current_fuel >= remaining_distance, both floats
FloatCanReachDestination ==
    Fl(DistanceOn(current_fuel)) >= Fl(total_distance - current_position)

\* projected distances next to the edge of the vehicle_range window: 100.012,
\* 300, 580, 600.016 and 1000 miles
FloatPositionSet ==
    { Miles(100) + 3, Miles(300), Miles(580), Miles(600) + 4, Miles(1000) }

FloatTotalDistanceSet == { Miles(0), Miles(500), Miles(1000) }

FloatStationAttrs ==
    [coordinates : {TRUE}, proj : FloatPositionSet, retail_price : FinePriceSet]

FloatCall ==
    /\ pc = "idle"
    /\ \E distance \in FloatTotalDistanceSet, n \in 0..MaxStations :
           \E a \in [1..n -> FloatStationAttrs] :
               Enter(distance, StationList(n, a))
    /\ UNCHANGED previous_run

\* one pass through the body of the while loop, every result rounded
FloatIterate ==
    /\ pc = "loop"
    /\ planner = "enhanced"
    /\ LoopCondition
    /\ iteration' = iteration + 1
    /\ UNCHANGED << total_distance, available_stations, planner, previous_run,
                    notPlanner >>
    /\ IF FloatCanReachDestination
       THEN /\ Return
            /\ UNCHANGED << station_positions, selected_stops, current_fuel,
                            current_position, total_cost, total_gallons,
                            last_window >>
       ELSE LET reachable_stations ==
                    FloatCandidateWindow(station_positions, current_position)
            IN  IF reachable_stations = << >>
                THEN /\ Raise("InsufficientRangeError")
                     /\ UNCHANGED << station_positions, selected_stops,
                                     current_fuel, current_position, total_cost,
                                     total_gallons, last_window >>
                ELSE LET best_station == MinByPrice(reachable_stations)
                         distance_to_station ==
                             Fl(best_station.distance_from_start
                                    - current_position)
                         fuel_needed == Fl(FuelFor(distance_to_station))
                         fuel_on_arrival == Fl(current_fuel - fuel_needed)
                         gallons_to_add == Fl(tank_capacity - fuel_on_arrival)
                         cost == Fl(gallons_to_add * best_station.price)
                     IN  IF fuel_on_arrival < 0
                         THEN /\ Raise("InsufficientRangeError")
                              /\ current_fuel' = fuel_on_arrival
                              /\ UNCHANGED << station_positions, selected_stops,
                                              current_position, total_cost,
                                              total_gallons, last_window >>
                         ELSE /\ selected_stops' =
                                     Append(selected_stops,
                                            StopRecord(best_station,
                                                       gallons_to_add, cost))
                              /\ total_cost' = Fl(total_cost + cost)
                              /\ total_gallons' =
                                     Fl(total_gallons + gallons_to_add)
                              /\ current_fuel' = tank_capacity
                              /\ current_position' =
                                     best_station.distance_from_start
                              /\ station_positions' =
                                     Remove(station_positions, best_station)
                              /\ last_window' =
                                     [from |-> current_position,
                                      stations |-> reachable_stations,
                                      best |-> best_station,
                                      fuel_on_arrival |-> fuel_on_arrival]
                              /\ UNCHANGED << pc, outcome, result >>

NextFloat == FloatCall \/ FloatIterate \/ ExitLoop

SpecFloat == Init /\ [][NextFloat]_vars

\* ------------------------- two calls of the enhanced planner at the same time
\* projected distances and prices of the stations both calls are given
RunPositionSet == { Miles(100), Miles(450), Miles(700) }

RunPriceSet == { 3000, 3500 }

RunTotalDistanceSet == { Miles(600), Miles(1100) }

RunStationAttrs ==
    [coordinates : {TRUE}, proj : RunPositionSet, retail_price : RunPriceSet]

\* (mutant) the working list is one list that every call uses
WorkingListShared(r) == 1

\* station_positions = self._map_stations_to_route(...): a list of its own
\* for every call
WorkingListOf(r) == r

\* the locals of a call at the first test of the loop
FreshRun(distance, list) ==
    [pc |-> "loop", total_distance |-> distance, list |-> list,
     selected_stops |-> << >>, current_fuel |-> tank_capacity,
     current_position |-> 0, total_cost |-> 0, total_gallons |-> 0,
     iteration |-> 0, outcome |-> "none", result |-> NoResult]

\* return (selected_stops, round(total_cost, 2), round(total_gallons, 2))
RunReturned(run) ==
    [run EXCEPT !.pc = "done", !.outcome = "returned",
                !.result = [stops |-> run.selected_stops,
                            total_cost |-> RoundCost(run.total_cost),
                            total_gallons |-> RoundGallons(run.total_gallons)]]

RunRaised(run, exception) ==
    [run EXCEPT !.pc = "done", !.outcome = exception]

\* One test of the while condition and, when it holds, one pass through the
\* loop body, on the locals of a call and the working list it refers to:
\* the locals and the working list afterwards.
LoopPass(run, positions) ==
    IF ~(run.current_position < run.total_distance
            /\ run.iteration < max_iterations)
    THEN [run |-> RunReturned(run), positions |-> positions]
    ELSE LET entered == [run EXCEPT !.iteration = run.iteration + 1]
             reachable_stations ==
                 CandidateWindow(positions, run.current_position)
         IN  IF DistanceOn(run.current_fuel) >=
                    run.total_distance - run.current_position
             THEN [run |-> RunReturned(entered), positions |-> positions]
             ELSE IF reachable_stations = << >>
             THEN [run |-> RunRaised(entered, "InsufficientRangeError"),
                   positions |-> positions]
             ELSE LET best_station == MinByPrice(reachable_stations)
                      distance_to_station ==
                          best_station.distance_from_start
                              - run.current_position
                      fuel_on_arrival ==
                          run.current_fuel - FuelFor(distance_to_station)
                      gallons_to_add == tank_capacity - fuel_on_arrival
                      cost == gallons_to_add * best_station.price
                  IN  IF fuel_on_arrival < 0
                      THEN [run |-> RunRaised(
                                        [entered EXCEPT
                                            !.current_fuel = fuel_on_arrival],
                                        "InsufficientRangeError"),
                            positions |-> positions]
                      ELSE [run |->
                                [entered EXCEPT
                                    !.selected_stops =
                                        Append(run.selected_stops,
                                               StopRecord(best_station,
                                                          gallons_to_add, cost)),
                                    !.total_cost = run.total_cost + cost,
                                    !.total_gallons =
                                        run.total_gallons + gallons_to_add,
                                    !.current_fuel = tank_capacity,
                                    !.current_position =
                                        best_station.distance_from_start],
                            positions |-> Remove(positions, best_station)]

\* call r enters find_optimal_fuel_stops with the stations both calls share
StartRun(r) ==
    /\ runs[r].pc = "idle"
    /\ IF given_stations = << >>
       THEN \E n \in 1..MaxStations :
                \E a \in [1..n -> RunStationAttrs] :
                    given_stations' = StationList(n, a)
       ELSE UNCHANGED given_stations
    /\ \E distance \in RunTotalDistanceSet :
           runs' = [runs EXCEPT ![r] = FreshRun(distance, WorkingListOf(r))]
    /\ lists' = [lists EXCEPT ![WorkingListOf(r)] =
                     SortByDistance(MapStationsToRoute(given_stations'))]
    /\ UNCHANGED notRun

\* call r runs up to the end of one pass through its loop
StepRun(r) ==
    /\ runs[r].pc = "loop"
    /\ \E after \in { LoopPass(runs[r], lists[runs[r].list]) } :
           /\ runs' = [runs EXCEPT ![r] = after.run]
           /\ lists' = [lists EXCEPT ![runs[r].list] = after.positions]
    /\ UNCHANGED given_stations
    /\ UNCHANGED notRun

NextRuns == \E r \in Requests : StartRun(r) \/ StepRun(r)

SpecRuns == Init /\ [][NextRuns]_runVars

\* ------------------------------- FuelOptimizationService (services.py planner)
\* reachable_stations of the services.py loop: the vehicle_range window, or
\* the nearest station ahead when the window is empty
BasicCandidates(positions, position) ==
    IF ReachableStations(positions, position, vehicle_range) # << >>
    THEN ReachableStations(positions, position, vehicle_range)
    ELSE NearestAhead(positions, position)

\* the dict appended to selected_stops (price_per_gallon is not rounded)
BasicStopRecord(best_station, gallons_to_add, cost) ==
    [station_id |-> best_station.station,
     price_per_gallon |-> best_station.price,
     gallons |-> RoundGallons(gallons_to_add),
     cost |-> RoundCost(cost),
     distance_from_start |-> RoundDistance(best_station.distance_from_start)]

\* find_optimal_fuel_stops of services.py, from the call to the first loop test
BasicEnter(distance, stations) ==
    /\ planner' = "basic"
    /\ total_distance' = distance
    /\ available_stations' = stations
    /\ IF stations = << >>
       THEN /\ pc' = "done"
            /\ outcome' = "returned"
            /\ result' = NoResult
            /\ UNCHANGED << station_positions, current_fuel >>
       ELSE /\ station_positions' = SortByDistance(MapStationsToRoute(stations))
            /\ current_fuel' = tank_capacity
            /\ pc' = "loop"
            /\ UNCHANGED << outcome, result >>
    /\ UNCHANGED << selected_stops, current_position, total_cost, total_gallons,
                    iteration, last_window >>
    /\ UNCHANGED << previous_run, notPlanner >>

BasicCall ==
    /\ pc = "idle"
    /\ \/ \E distance \in TotalDistanceSet, n \in 0..MaxStations :
              \E a \in [1..n -> StationAttrs] :
                  BasicEnter(distance, StationList(n, a))
       \/ \E distance \in FineTotalDistanceSet, n \in 1..MaxStations :
              \E a \in [1..n -> FineStationAttrs] :
                  BasicEnter(distance, StationList(n, a))

\* one pass through the body of the services.py while loop
BasicIterate ==
    /\ pc = "loop"
    /\ planner = "basic"
    /\ current_position < total_distance
    /\ UNCHANGED << total_distance, available_stations, iteration, planner,
                    previous_run, notPlanner >>
    /\ LET reachable_stations ==
               BasicCandidates(station_positions, current_position)
       IN  IF reachable_stations = << >>
           THEN /\ Return
                /\ UNCHANGED << station_positions, selected_stops, current_fuel,
                                current_position, total_cost, total_gallons,
                                last_window >>
           ELSE LET best_station == MinByPrice(reachable_stations)
                    distance_to_station ==
                        best_station.distance_from_start - current_position
                    fuel_needed == FuelFor(distance_to_station)
                    fuel_on_arrival == current_fuel - fuel_needed
                    gallons_to_add == tank_capacity - fuel_on_arrival
                    cost == gallons_to_add * best_station.price
                IN  /\ selected_stops' =
                           Append(selected_stops,
                                  BasicStopRecord(best_station, gallons_to_add,
                                                  cost))
                    /\ total_cost' = total_cost + cost
                    /\ total_gallons' = total_gallons + gallons_to_add
                    /\ current_fuel' = tank_capacity
                    /\ current_position' = best_station.distance_from_start
                    /\ station_positions' =
                           Remove(station_positions, best_station)
                    /\ last_window' =
                           [from |-> current_position,
                            stations |-> reachable_stations,
                            best |-> best_station,
                            fuel_on_arrival |-> fuel_on_arrival]
                    /\ UNCHANGED << pc, outcome, result >>

\* the while condition is false: return
BasicExitLoop ==
    /\ pc = "loop"
    /\ planner = "basic"
    /\ ~(current_position < total_distance)
    /\ Return
    /\ UNCHANGED << planner, total_distance, available_stations, station_positions,
                    selected_stops, current_fuel, current_position, total_cost,
                    total_gallons, iteration, last_window >>
    /\ UNCHANGED << previous_run, notPlanner >>

BasicNext == BasicCall \/ BasicIterate \/ BasicExitLoop

SpecBasic == Init /\ [][BasicNext]_vars

\* either planner is called
NextEither == Next \/ BasicNext

SpecEither == Init /\ [][NextEither]_vars

\* ------------------------------------------- retry_on_failure (utils.py)
\* most attempts a decorated function is given
MaxRetries == 3

\* @retry_on_failure(..., delay_seconds=1.0) on geocode_address,
\* delay_seconds=2.0 on get_route
DelaySeconds(func) == IF func = "geocode_address" THEN 1 ELSE 2

\* backoff: float = 2.0
backoff == 2

\* what requests.get and the body of the answer can be for the geocoder
GeocodeResponses ==
    { "ok", "timeout", "connection_error", "http_error", "rate_limited",
      "no_match", "malformed", "bad_coordinates" }

\* ... and for the route provider
RouteResponses ==
    { "ok", "timeout", "connection_error", "http_error", "rate_limited",
      "NoRoute", "error_code", "no_routes", "no_geometry", "bad_distance" }

Responses(func) ==
    IF func = "geocode_address" THEN GeocodeResponses ELSE RouteResponses

\* geocode_address from requests.get on: "ok" or the exception that leaves it
GeocodeAddress(response) ==
    CASE response = "timeout" -> "RouteServiceUnavailableError"
      [] response = "connection_error" -> "RouteServiceUnavailableError"
      [] response = "http_error" -> "RouteServiceUnavailableError"
      [] response = "rate_limited" -> "ExternalServiceException"
      [] response = "no_match" -> "LocationNotFoundError"
      [] response = "malformed" -> "LocationNotFoundError"
      [] response = "bad_coordinates" -> "ValidationError"
      [] OTHER -> "ok"

\* get_route from requests.get on: "ok" or the exception that leaves it
GetRoute(response) ==
    CASE response = "timeout" -> "RouteServiceUnavailableError"
      [] response = "connection_error" -> "RouteServiceUnavailableError"
      [] response = "http_error" -> "RouteServiceUnavailableError"
      [] response = "rate_limited" -> "ExternalServiceException"
      [] response = "NoRoute" -> "NoRouteFoundError"
      [] response = "error_code" -> "RouteServiceUnavailableError"
      [] response = "no_routes" -> "NoRouteFoundError"
      [] response = "no_geometry" -> "NoRouteFoundError"
      [] response = "bad_distance" -> "ValidationError"
      [] OTHER -> "ok"

\* One invocation of the wrapped function: validation of the arguments, the
\* cache lookup, then the request.  `response` is what the service would
\* answer; the record says whether it was asked and how the invocation ended.
Invoke(func, response) ==
    IF ~input_valid
    THEN [response |-> "none", contacted |-> FALSE, result |-> "ValidationError"]
    ELSE IF cached
    THEN [response |-> "none", contacted |-> FALSE, result |-> "ok"]
    ELSE [response |-> response, contacted |-> TRUE,
          result |-> IF func = "geocode_address" THEN GeocodeAddress(response)
                     ELSE GetRoute(response)]

\* (mutant) the wrapper never gives up on a failure
AttemptsNeverUsedUp(n) == FALSE

\* if retries >= max_retries: raise
AttemptsUsedUp(n) == n >= max_retries

\* wrapper(*args): the decorated function is called
RetryCall ==
    /\ retry_pc = "idle"
    /\ \E func \in { "geocode_address", "get_route" }, n \in 0..MaxRetries,
          valid \in BOOLEAN, hit \in BOOLEAN :
           /\ wrapped' = func
           /\ max_retries' = n
           /\ input_valid' = valid
           /\ cached' = hit
           /\ current_delay' = DelaySeconds(func)
    /\ retries' = 0
    /\ retry_pc' = "running"
    /\ UNCHANGED << invocations, contacts, slept, attempts, retry_outcome >>
    /\ UNCHANGED notRetry

\* one pass through the wrapper's while loop: the wrapped function runs, its
\* result is returned or its exception handled
Attempt ==
    /\ retry_pc = "running"
    /\ retries < max_retries
    /\ \E response \in Responses(wrapped) :
           LET run == Invoke(wrapped, response)
           IN  /\ invocations' = invocations + 1
               /\ contacts' = contacts + (IF run.contacted THEN 1 ELSE 0)
               /\ attempts' = Append(attempts, run)
               /\ IF run.result = "ok"
                  THEN /\ cached' = TRUE
                       /\ retry_pc' = "done"
                       /\ retry_outcome' = "returned"
                       /\ UNCHANGED << retries, current_delay, slept >>
                  ELSE /\ retries' = retries + 1
                       /\ UNCHANGED cached
                       /\ IF AttemptsUsedUp(retries + 1)
                          THEN /\ retry_pc' = "done"
                               /\ retry_outcome' = run.result
                               /\ UNCHANGED << current_delay, slept >>
                          ELSE /\ slept' = slept + current_delay
                               /\ current_delay' = current_delay * backoff
                               /\ UNCHANGED << retry_pc, retry_outcome >>
    /\ UNCHANGED << wrapped, max_retries, input_valid >>
    /\ UNCHANGED notRetry

\* the while condition is false: return None
RetryReturnNone ==
    /\ retry_pc = "running"
    /\ ~(retries < max_retries)
    /\ retry_pc' = "done"
    /\ retry_outcome' = "None"
    /\ UNCHANGED << wrapped, max_retries, input_valid, cached, retries,
                    current_delay, invocations, contacts, slept, attempts >>
    /\ UNCHANGED notRetry

NextRetry == RetryCall \/ Attempt \/ RetryReturnNone

SpecRetry == Init /\ [][NextRetry]_retryVars

\* ------------------------------ RateLimitMiddleware.process_request
\* most /api/ requests the client sends, most requests that arrive while
\* another one is in progress, and most cache entries that time out
MaxRequests == 62

MaxOverlaps == 1

MaxExpiries == 1

\* self.rate_limit_per_minute = 60  # Max requests per minute
rate_limit_per_minute == 60

\* self.rate_limit_per_hour = 1000  # Max requests per hour
rate_limit_per_hour == 1000

\* JsonResponse({...}, status=429): the request is answered
Rejected(handler) == [IdleHandler EXCEPT !.response = "429"]

\* a request to /api/ arrives: minute_count = cache.get(minute_key, 0) and
\* the check of the minute limit
CheckMinute(h) ==
    /\ handlers[h].pc = "idle"
    /\ served < MaxRequests
    /\ served' = served + 1
    /\ IF \E o \in Requests : handlers[o].pc # "idle"
       THEN overlaps < MaxOverlaps /\ overlaps' = overlaps + 1
       ELSE UNCHANGED overlaps
    /\ LET handler == [IdleHandler EXCEPT !.minute_count = minute_key]
       IN  handlers' =
               [handlers EXCEPT
                   ![h] = IF handler.minute_count >= rate_limit_per_minute
                          THEN Rejected(handler)
                          ELSE [handler EXCEPT !.pc = "check_hour"]]
    /\ UNCHANGED << minute_key, hour_key, admitted_minute, admitted_hour,
                    expiries >>
    /\ UNCHANGED notLimit

\* hour_count = cache.get(hour_key, 0) and the check of the hour limit
CheckHour(h) ==
    /\ handlers[h].pc = "check_hour"
    /\ LET handler == [handlers[h] EXCEPT !.hour_count = hour_key]
       IN  handlers' =
               [handlers EXCEPT
                   ![h] = IF handler.hour_count >= rate_limit_per_hour
                          THEN Rejected(handler)
                          ELSE [handler EXCEPT !.pc = "set_minute"]]
    /\ UNCHANGED << minute_key, hour_key, admitted_minute, admitted_hour,
                    served, overlaps, expiries >>
    /\ UNCHANGED notLimit

\* cache.set(minute_key, minute_count + 1, timeout=60)
SetMinute(h) ==
    /\ handlers[h].pc = "set_minute"
    /\ minute_key' = handlers[h].minute_count + 1
    /\ admitted_minute' = IF minute_key = 0 THEN 1 ELSE admitted_minute + 1
    /\ handlers' = [handlers EXCEPT ![h].pc = "set_hour"]
    /\ UNCHANGED << hour_key, admitted_hour, served, overlaps, expiries >>
    /\ UNCHANGED notLimit

\* cache.set(hour_key, hour_count + 1, timeout=3600); return None
SetHour(h) ==
    /\ handlers[h].pc = "set_hour"
    /\ hour_key' = handlers[h].hour_count + 1
    /\ admitted_hour' = IF hour_key = 0 THEN 1 ELSE admitted_hour + 1
    /\ handlers' = [handlers EXCEPT ![h] = [IdleHandler EXCEPT
                                               !.response = "None"]]
    /\ UNCHANGED << minute_key, admitted_minute, served, overlaps, expiries >>
    /\ UNCHANGED notLimit

\* sixty seconds have passed since the minute entry was last set
ExpireMinute ==
    /\ minute_key # 0
    /\ expiries < MaxExpiries
    /\ minute_key' = 0
    /\ expiries' = expiries + 1
    /\ UNCHANGED << hour_key, handlers, admitted_minute, admitted_hour, served,
                    overlaps >>
    /\ UNCHANGED notLimit

\* an hour has passed since the hour entry was last set
ExpireHour ==
    /\ hour_key # 0
    /\ expiries < MaxExpiries
    /\ hour_key' = 0
    /\ expiries' = expiries + 1
    /\ UNCHANGED << minute_key, handlers, admitted_minute, admitted_hour,
                    served, overlaps >>
    /\ UNCHANGED notLimit

NextLimit ==
    \/ \E h \in Requests :
           CheckMinute(h) \/ CheckHour(h) \/ SetMinute(h) \/ SetHour(h)
    \/ ExpireMinute
    \/ ExpireHour

SpecLimit == Init /\ [][NextLimit]_limitVars

\* ------------------------------------ LocationValidator (validators.py)
\* Strings are sequences of one-character strings.
\* str.strip(): leading and trailing blanks are dropped
RECURSIVE LStrip(_)
LStrip(str) ==
    IF str # << >> /\ Head(str) = " " THEN LStrip(Tail(str)) ELSE str

RECURSIVE RStrip(_)
RStrip(str) ==
    IF str # << >> /\ str[Len(str)] = " "
    THEN RStrip(SubSeq(str, 1, Len(str) - 1)) ELSE str

Strip(str) == RStrip(LStrip(str))

\* str.upper(), for the letters the inputs use
Upper(str) ==
    [k \in 1..Len(str) |->
        CASE str[k] = "n" -> "N" [] str[k] = "v" -> "V" [] str[k] = "e" -> "E"
          [] str[k] = "l" -> "L" [] str[k] = "y" -> "Y" [] OTHER -> str[k]]

\* LocationValidator.STATE_CODES, the codes the inputs can spell
STATE_CODES == { << "N", "V" >>, << "N", "E" >>, << "N", "Y" >> }

\* validate_location_string: [ok |-> FALSE] stands for ValidationError
ValidateLocationString(location) ==
    LET stripped == Strip(location)
        commas == { k \in 1..Len(stripped) : stripped[k] = "," }
    IN  IF location = << >> THEN [ok |-> FALSE, value |-> << >>]
        ELSE IF Len(stripped) < 3 \/ Len(stripped) > 255
        THEN [ok |-> FALSE, value |-> << >>]
        ELSE IF Cardinality(commas) = 1
        THEN LET k == CHOOSE k \in commas : TRUE
                 city == SubSeq(stripped, 1, k - 1)
                 state == Upper(Strip(SubSeq(stripped, k + 1, Len(stripped))))
             IN  IF state \in STATE_CODES
                 THEN [ok |-> TRUE,
                       value |-> Strip(city) \o << ",", " " >> \o state]
                 ELSE [ok |-> TRUE, value |-> stripped]
        ELSE [ok |-> TRUE, value |-> stripped]

\* ------------------------ EnhancedFuelRoutingService.plan_route and its cache
\* the location strings callers pass: "Ely", " Ely", "Ely,nv", "Ely:Ely", "El"
Ely == << "E", "l", "y" >>

LocationInputs ==
    { Ely, << " " >> \o Ely, Ely \o << ",", "n", "v" >>,
      Ely \o << ":" >> \o Ely, << "E", "l" >> }

\* A fixed world.  What the geocoder finds for a normalized location
\* (NoCoords: no match, geocode_address raises LocationNotFoundError) ...
Gazetteer(location) ==
    CASE location = Ely -> << 48, -92 >>
      [] location = Ely \o << ",", " ", "N", "V" >> -> << 39, -115 >>
      [] location = Ely \o << ":" >> \o Ely -> << 40, -100 >>
      [] OTHER -> NoCoords

\* ... the route the provider gives between two coordinates (NoRouteData:
\* the distance is below 0.1 mile and RouteValidator.validate_distance
\* raises ValidationError) ...
Road(from, to) ==
    LET dlat == IF from[1] > to[1] THEN from[1] - to[1] ELSE to[1] - from[1]
        dlon == IF from[2] > to[2] THEN from[2] - to[2] ELSE to[2] - from[2]
    IN  IF from = to THEN NoRouteData
        ELSE [geometry |-> << from, to >>,
              distance_miles |-> 69 * dlat + 53 * dlon,
              duration_seconds |-> 60 * (69 * dlat + 53 * dlon)]

\* ... and what find_stations_near_route and find_optimal_fuel_stops give for
\* a route: a stop every 450 miles at 3.00 a gallon, filling 45 gallons
FuelPlan(route_data) ==
    LET n == route_data.distance_miles \div 450
    IN  [fuel_stops |-> [k \in 1..n |-> [station_id |-> k,
                                         distance_from_start |-> 450 * k]],
         total_cost |-> 135 * n,
         total_gallons |-> 45 * n,
         stations_searched |-> n + 1]

\* cache_key = f"full_route:{start_location}:{end_location}"
CacheKey(start_location, end_location) ==
    << "full_route:" >> \o start_location \o << ":" >> \o end_location

\* cache.get(key) found an entry (a stored plan is a non-empty dict: truthy)
CacheHolds(key) == key \in DOMAIN cache

\* cache.set(key, value, timeout=3600)
CacheSet(key, value) ==
    [k \in DOMAIN cache \cup { key } |-> IF k = key THEN value ELSE cache[k]]

\* (mutant) the result dict carries the number of cache entries present when
\* it is assembled
BuildResultWithCalls(call) ==
    [start_location |-> call.start_location,
     end_location |-> call.end_location,
     start_coordinates |-> call.start_coords,
     end_coordinates |-> call.end_coords,
     route |-> call.route_data,
     fuel_stops |-> FuelPlan(call.route_data).fuel_stops,
     summary |-> [total_distance_miles |-> call.route_data.distance_miles,
                  total_fuel_cost |-> FuelPlan(call.route_data).total_cost,
                  total_fuel_gallons |-> FuelPlan(call.route_data).total_gallons,
                  number_of_stops |-> Len(FuelPlan(call.route_data).fuel_stops),
                  stations_searched |-> Cardinality(DOMAIN cache)]]

\* result = {...}: the dict built from the locals of the call
BuildResult(call) ==
    [start_location |-> call.start_location,
     end_location |-> call.end_location,
     start_coordinates |-> call.start_coords,
     end_coordinates |-> call.end_coords,
     route |-> call.route_data,
     fuel_stops |-> FuelPlan(call.route_data).fuel_stops,
     summary |-> [total_distance_miles |-> call.route_data.distance_miles,
                  total_fuel_cost |-> FuelPlan(call.route_data).total_cost,
                  total_fuel_gallons |-> FuelPlan(call.route_data).total_gallons,
                  number_of_stops |-> Len(FuelPlan(call.route_data).fuel_stops),
                  stations_searched |->
                      FuelPlan(call.route_data).stations_searched]]

\* plan_route(start, end, use_cache) up to the cache lookup: both locations
\* are validated, the key is built and the cache is read
PlanRoute(r) ==
    /\ plan_calls[r].pc = "idle"
    /\ \E start \in LocationInputs, end \in LocationInputs, use \in BOOLEAN :
           LET s == ValidateLocationString(start)
               e == ValidateLocationString(end)
               key == CacheKey(s.value, e.value)
               entered == [plan_calls[r] EXCEPT
                              !.use_cache = use,
                              !.start_location = s.value,
                              !.end_location = e.value,
                              !.steps = IF s.ok /\ e.ok /\ use
                                        THEN << "validate", "cache_get" >>
                                        ELSE << "validate" >>]
           IN  IF ~s.ok \/ ~e.ok
               THEN plan_calls' =
                        [plan_calls EXCEPT
                            ![r] = [entered EXCEPT !.pc = "done",
                                                   !.outcome = "ValidationError"]]
               ELSE IF use /\ CacheHolds(key)
               THEN plan_calls' =
                        [plan_calls EXCEPT
                            ![r] = [entered EXCEPT !.pc = "done",
                                                   !.cache_key = key,
                                                   !.hit = TRUE,
                                                   !.outcome = "returned",
                                                   !.result = cache[key]]]
               ELSE plan_calls' =
                        [plan_calls EXCEPT
                            ![r] = [entered EXCEPT !.pc = "geocode_start",
                                                   !.cache_key = key]]
    /\ UNCHANGED cache
    /\ UNCHANGED notCache

\* start_coords = self.geocoding_service.geocode_address(start_location)
GeocodeStart(r) ==
    /\ plan_calls[r].pc = "geocode_start"
    /\ LET call == [plan_calls[r] EXCEPT
                       !.calls = @ + 1, !.steps = Append(@, "geocode_start")]
           coords == Gazetteer(call.start_location)
       IN  \/ plan_calls' =
                  [plan_calls EXCEPT
                      ![r] = [call EXCEPT !.pc = "done",
                                          !.outcome = "RouteServiceUnavailableError"]]
           \/ IF coords = NoCoords
              THEN plan_calls' =
                       [plan_calls EXCEPT
                           ![r] = [call EXCEPT !.pc = "done",
                                               !.outcome = "LocationNotFoundError"]]
              ELSE plan_calls' =
                       [plan_calls EXCEPT
                           ![r] = [call EXCEPT !.pc = "geocode_end",
                                               !.start_coords = coords]]
    /\ UNCHANGED cache
    /\ UNCHANGED notCache

\* end_coords = self.geocoding_service.geocode_address(end_location)
GeocodeEnd(r) ==
    /\ plan_calls[r].pc = "geocode_end"
    /\ LET call == [plan_calls[r] EXCEPT
                       !.calls = @ + 1, !.steps = Append(@, "geocode_end")]
           coords == Gazetteer(call.end_location)
       IN  \/ plan_calls' =
                  [plan_calls EXCEPT
                      ![r] = [call EXCEPT !.pc = "done",
                                          !.outcome = "RouteServiceUnavailableError"]]
           \/ IF coords = NoCoords
              THEN plan_calls' =
                       [plan_calls EXCEPT
                           ![r] = [call EXCEPT !.pc = "done",
                                               !.outcome = "LocationNotFoundError"]]
              ELSE plan_calls' =
                       [plan_calls EXCEPT
                           ![r] = [call EXCEPT !.pc = "get_route",
                                               !.end_coords = coords]]
    /\ UNCHANGED cache
    /\ UNCHANGED notCache

\* route_data = self.routing_service.get_route(start_coords, end_coords)
GetRouteData(r) ==
    /\ plan_calls[r].pc = "get_route"
    /\ LET call == [plan_calls[r] EXCEPT
                       !.calls = @ + 1, !.steps = Append(@, "get_route")]
           route_data == Road(call.start_coords, call.end_coords)
       IN  \/ plan_calls' =
                  [plan_calls EXCEPT
                      ![r] = [call EXCEPT !.pc = "done",
                                          !.outcome = "RouteServiceUnavailableError"]]
           \/ IF route_data = NoRouteData
              THEN plan_calls' =
                       [plan_calls EXCEPT
                           ![r] = [call EXCEPT !.pc = "done",
                                               !.outcome = "ValidationError"]]
              ELSE plan_calls' =
                       [plan_calls EXCEPT
                           ![r] = [call EXCEPT !.pc = "decode",
                                               !.route_data = route_data]]
    /\ UNCHANGED cache
    /\ UNCHANGED notCache

\* route_points = self.routing_service.decode_polyline(geometry): the
\* provider's geometry is malformed (ValueError) or decodes
DecodePath(r) ==
    /\ plan_calls[r].pc = "decode"
    /\ LET call == [plan_calls[r] EXCEPT !.steps = Append(@, "decode")]
       IN  \/ plan_calls' =
                  [plan_calls EXCEPT
                      ![r] = [call EXCEPT !.pc = "done",
                                          !.outcome = "ValueError"]]
           \/ plan_calls' =
                  [plan_calls EXCEPT ![r] = [call EXCEPT !.pc = "find_stations"]]
    /\ UNCHANGED cache
    /\ UNCHANGED notCache

\* (mutant) a locator that returns its empty list
LocatorReturnsEmpty(found) == "plan_stops"

\* if not stations_list: raise NoFuelStationsFoundError("route"): where the
\* call goes after the locator found a number of stations
AfterLocator(found) == IF found = 0 THEN "done" ELSE "plan_stops"

\* stations_near_route = self.fuel_service.find_stations_near_route(...):
\* the catalog is queried and holds no station near the route, or the
\* stations of the fixed world
FindStations(r) ==
    /\ plan_calls[r].pc = "find_stations"
    /\ LET call == [plan_calls[r] EXCEPT
                       !.calls = @ + 1, !.steps = Append(@, "find_stations")]
       IN  \E found \in { 0, FuelPlan(call.route_data).stations_searched } :
               plan_calls' =
                   [plan_calls EXCEPT
                       ![r] = [call EXCEPT
                                  !.stations_found = found,
                                  !.pc = AfterLocator(found),
                                  !.outcome =
                                      IF AfterLocator(found) = "done"
                                      THEN "NoFuelStationsFoundError"
                                      ELSE "none"]]
    /\ UNCHANGED cache
    /\ UNCHANGED notCache

\* find_optimal_fuel_stops raises InsufficientRangeError, or gives the stops
\* and the result dict is built; without use_cache the result is returned at
\* once
Optimize(r) ==
    /\ plan_calls[r].pc = "plan_stops"
    /\ LET call == [plan_calls[r] EXCEPT !.steps = Append(@, "plan_stops")]
       IN  \/ plan_calls' =
                  [plan_calls EXCEPT
                      ![r] = [call EXCEPT !.pc = "done",
                                          !.outcome = "InsufficientRangeError"]]
           \/ plan_calls' =
                  [plan_calls EXCEPT
                      ![r] = IF call.use_cache
                             THEN [call EXCEPT !.pc = "cache_set",
                                               !.result = BuildResult(call)]
                             ELSE [call EXCEPT !.pc = "done",
                                               !.outcome = "returned",
                                               !.result = BuildResult(call)]]
    /\ UNCHANGED cache
    /\ UNCHANGED notCache

\* (mutant) the cache is written as soon as the route is known
MayStoreEarly(call) == call.pc \in { "cache_set", "decode" }

\* the call has reached "if use_cache: cache.set(...)" with use_cache set
MayStore(call) == call.pc = "cache_set"

\* cache.set(cache_key, result, timeout=3600); return result
StoreAndReturn(r) ==
    /\ MayStore(plan_calls[r])
    /\ cache' = CacheSet(plan_calls[r].cache_key, plan_calls[r].result)
    /\ plan_calls' = [plan_calls EXCEPT ![r].pc = "done",
                                        ![r].outcome = "returned",
                                        ![r].steps = Append(@, "cache_set")]
    /\ UNCHANGED notCache

\* the time-to-live of an entry runs out
Expire ==
    /\ \E key \in DOMAIN cache :
           cache' = [k \in DOMAIN cache \ { key } |-> cache[k]]
    /\ UNCHANGED plan_calls
    /\ UNCHANGED notCache

NextPlan ==
    \/ \E r \in Requests :
           \/ PlanRoute(r)
           \/ GeocodeStart(r)
           \/ GeocodeEnd(r)
           \/ GetRouteData(r)
           \/ DecodePath(r)
           \/ FindStations(r)
           \/ Optimize(r)
           \/ StoreAndReturn(r)
    \/ Expire

SpecPlan == Init /\ [][NextPlan]_cacheVars

\* ------------------------------- EnhancedRoutingService.decode_polyline
\* longest encoded string decoded
MaxEncodedLen == 4

\* An encoded string is a sequence of character codes; ord() of '?', '@',
\* '^', '_' and '~': the chunks 0, 1 and 31 end a value, 32 and 63 continue it
PolylineChars == { 63, 64, 94, 95, 126 }

\* (mutant) a value that runs past the end of the string ends there
RECURSIVE ReadValuePadded(_, _, _, _)
ReadValuePadded(str, index, shift, value) ==
    IF index > Len(str)
    THEN [ok |-> TRUE, index |-> index, value |-> value]
    ELSE LET b == str[index] - 63
             next == value + (b % 32) * (2 ^ shift)
         IN  IF b < 32
             THEN [ok |-> TRUE, index |-> index + 1, value |-> next]
             ELSE ReadValuePadded(str, index + 1, shift + 5, next)

\* The inner "while True" loop from position `index` (1-based):
\*   b = ord(encoded[index]) - 63; index += 1
\*   result |= (b & 0x1f) << shift; shift += 5; if b < 0x20: break
\* ok = FALSE is the IndexError of encoded[index] past the end.
RECURSIVE ReadValue(_, _, _, _)
ReadValue(str, index, shift, value) ==
    IF index > Len(str)
    THEN [ok |-> FALSE, index |-> index, value |-> value]
    ELSE LET b == str[index] - 63
             next == value + (b % 32) * (2 ^ shift)
         IN  IF b < 32
             THEN [ok |-> TRUE, index |-> index + 1, value |-> next]
             ELSE ReadValue(str, index + 1, shift + 5, next)

\* ~(result >> 1) if result & 1 else result >> 1
Signed(value) ==
    IF value % 2 = 1 THEN -(value \div 2) - 1 ELSE value \div 2

\* The outer loop "while index < len(encoded)" from position `index`; the
\* except clause turns the IndexError into ValueError.  Coordinates are kept
\* in units of 1e-5 degree.
RECURSIVE DecodeFrom(_, _, _, _, _)
DecodeFrom(str, index, lat, lon, coordinates) ==
    IF index > Len(str)
    THEN [outcome |-> "returned", value |-> coordinates]
    ELSE LET dlat == ReadValue(str, index, 0, 0)
         IN  IF ~dlat.ok THEN [outcome |-> "ValueError", value |-> << >>]
             ELSE LET dlon == ReadValue(str, dlat.index, 0, 0)
                  IN  IF ~dlon.ok
                      THEN [outcome |-> "ValueError", value |-> << >>]
                      ELSE DecodeFrom(str, dlon.index,
                                      lat + Signed(dlat.value),
                                      lon + Signed(dlon.value),
                                      Append(coordinates,
                                             << lat + Signed(dlat.value),
                                                lon + Signed(dlon.value) >>))

\* decode_polyline(encoded)
DecodePolyline(str) ==
    IF str = << >> THEN [outcome |-> "returned", value |-> << >>]
    ELSE DecodeFrom(str, 1, 0, 0, << >>)

\* decode_polyline is called on a string
Decode ==
    /\ decoded = NotCalled
    /\ \E n \in 0..MaxEncodedLen :
           \E str \in [1..n -> PolylineChars] :
               /\ encoded' = str
               /\ decoded' = DecodePolyline(str)
    /\ UNCHANGED notDecode

NextDecode == Decode

SpecDecode == Init /\ [][NextDecode]_decodeVars

\* ------------------- find_stations_near_route, calculate_cumulative_distances
\* Geometry.  Coordinates are whole miles on a local flat map, << north,
\* east >>: at this scale the great-circle distance is the straight-line
\* distance, one degree of latitude is 69 miles (lat_delta * 69 =
\* max_distance_miles) and one degree of longitude 69 * cos(lat) miles
\* (lon_delta * 69 * cos(lat) = max_distance_miles).  Distances are in
\* hundredths of a mile.

\* most rows of the FuelStation table
MaxCatalog == 2

\* max_distance_miles: float = 15.0
max_distance_miles == 15

\* the integer square root of n, searched between lo and hi
RECURSIVE SqrtBetween(_, _, _)
SqrtBetween(n, lo, hi) ==
    IF lo = hi THEN lo
    ELSE LET mid == (lo + hi + 1) \div 2
         IN  IF mid * mid <= n THEN SqrtBetween(n, mid, hi)
             ELSE SqrtBetween(n, lo, mid - 1)

\* haversine_distance(coord1, coord2), hundredths of a mile
HaversineDistance(coord1, coord2) ==
    LET dlat == coord2[1] - coord1[1]
        dlon == coord2[2] - coord1[2]
    IN  SqrtBetween(10000 * (dlat * dlat + dlon * dlon), 0, 46000)

\* rows of the table: latitude and longitude may be NULL (located = FALSE),
\* and a stored coordinate may be 0
StationRows ==
    [latitude : { 0, 10, 21 }, longitude : { 12, 40 },
     is_active : BOOLEAN, located : BOOLEAN]

\* FuelStation.coordinates is not None: "if self.latitude and self.longitude"
HasCoordinates(station) ==
    station.located /\ station.latitude # 0 /\ station.longitude # 0

\* the routes searched: none, one point, two points 40 miles apart, and a
\* hundred points 40 miles apart
RoutePoint(i) == << 10, 1 + 40 * i >>

RouteSet ==
    { << >>, << RoutePoint(0) >>, << RoutePoint(0), RoutePoint(1) >>,
      [i \in 1..100 |-> RoutePoint(i - 1)] }

\* sample_interval = max(1, len(route_points) // 50)
SampleInterval(points) ==
    IF Len(points) \div 50 > 1 THEN Len(points) \div 50 ELSE 1

\* sampled_points = route_points[::sample_interval]
SampledPoints(points) ==
    [k \in 1..((Len(points) + SampleInterval(points) - 1)
                   \div SampleInterval(points)) |->
        points[(k - 1) * SampleInterval(points) + 1]]

\* FuelStation.objects.filter(latitude__isnull=False, longitude__isnull=False,
\* is_active=True, latitude__gte=..., ...): the rows inside the bounding box
InBoundingBox(point, station) ==
    /\ station.located
    /\ station.is_active
    /\ station.latitude >= point[1] - max_distance_miles
    /\ station.latitude <= point[1] + max_distance_miles
    /\ station.longitude >= point[2] - max_distance_miles
    /\ station.longitude <= point[2] + max_distance_miles

\* (mutant) the distance of a row of the bounding box is not verified
NearPointUnverified(point, station) == HasCoordinates(station)

\* "if station.coordinates: ... if distance <= max_distance_miles"
NearPoint(point, station) ==
    /\ HasCoordinates(station)
    /\ HaversineDistance(point, << station.latitude, station.longitude >>)
           <= 100 * max_distance_miles

\* the set built by the two nested loops
StationsNearRoute(points, table) ==
    LET sampled_points == SampledPoints(points)
    IN  { station \in table :
            \E k \in 1..Len(sampled_points) :
                /\ InBoundingBox(sampled_points[k], station)
                /\ NearPoint(sampled_points[k], station) }

\* the table holding the given rows, row i with primary key i
Table(n, rows) ==
    { [id |-> i, latitude |-> rows[i].latitude,
       longitude |-> rows[i].longitude, is_active |-> rows[i].is_active,
       located |-> rows[i].located] : i \in 1..n }

\* the lists list(a_set) can be: every element once, in any order
ListsOf(S) ==
    { seq \in [1..Cardinality(S) -> S] :
        \A i, j \in 1..Cardinality(S) : i # j => seq[i] # seq[j] }

\* find_stations_near_route(route_points) on a table of stations
FindStationsNearRoute ==
    /\ stations_near_route = NotCalled
    /\ cumulative = NotCalled
    /\ station_map = NotMapped
    /\ \E points \in RouteSet, n \in 0..MaxCatalog :
           \E rows \in [1..n -> StationRows] :
               /\ route_points' = points
               /\ catalog' = Table(n, rows)
               /\ \E found \in { StationsNearRoute(points, Table(n, rows)) } :
                      IF found = {}
                      THEN stations_near_route' =
                               [outcome |-> "NoFuelStationsFoundError",
                                value |-> << >>]
                      ELSE \E stations_list \in ListsOf(found) :
                               stations_near_route' =
                                   [outcome |-> "returned",
                                    value |-> stations_list]
    /\ UNCHANGED << cumulative, station_map >>
    /\ UNCHANGED notGeo

NextNear == FindStationsNearRoute

SpecNear == Init /\ [][NextNear]_geoVars

\* most points of a route put to calculate_cumulative_distances
MaxRoutePoints == 3

\* the points such a route is made of
PointSet == { << 10, 1 >>, << 10, 41 >>, << 13, 5 >>, << 21, 12 >>, << 0, 0 >> }

\* The loop of calculate_cumulative_distances from index i (0-based):
\*   distance = haversine_distance(route_points[i - 1], route_points[i])
\*   total += distance; cumulative.append(total)
RECURSIVE CumulativeFrom(_, _, _, _)
CumulativeFrom(points, i, total, distances) ==
    IF i >= Len(points) THEN distances
    ELSE LET distance == HaversineDistance(points[i], points[i + 1])
         IN  CumulativeFrom(points, i + 1, total + distance,
                            Append(distances, total + distance))

\* cumulative = [0.0]; total = 0.0; for i in range(1, len(route_points)): ...
CumulativeDistances(points) == CumulativeFrom(points, 1, 0, << 0 >>)

\* calculate_cumulative_distances(route_points)
CalculateCumulativeDistances ==
    /\ cumulative = NotCalled
    /\ stations_near_route = NotCalled
    /\ station_map = NotMapped
    /\ \E n \in 0..MaxRoutePoints :
           \E points \in [1..n -> PointSet] :
               /\ route_points' = points
               /\ cumulative' = [outcome |-> "returned",
                                 value |-> CumulativeDistances(points)]
    /\ UNCHANGED << catalog, stations_near_route, station_map >>
    /\ UNCHANGED notGeo

NextCumulative == CalculateCumulativeDistances

SpecCumulative == Init /\ [][NextCumulative]_geoVars

\* ------------- EnhancedFuelOptimizationService._map_stations_to_route
\* min_distance = float('inf'): above every distance
Infinity == 999999

\* the routes stations are mapped to: none, one point, three points 40 miles
\* apart, and two hundred points a mile apart
MapRouteSet ==
    { << >>, << << 10, 1 >> >>, << << 10, 1 >>, << 10, 41 >>, << 10, 81 >> >>,
      [i \in 1..200 |-> << 10, i - 1 >>] }

\* the stations mapped: on the route or 3 miles off it; a longitude of 0
\* makes FuelStation.coordinates None
MapStationRows ==
    [latitude : { 10, 13 }, longitude : { 0, 21, 40 }, located : { TRUE },
     retail_price : { 3000 }]

\* station i of the list has primary key i
MapStationList(n, rows) ==
    [i \in 1..n |-> [id |-> i, latitude |-> rows[i].latitude,
                     longitude |-> rows[i].longitude,
                     located |-> rows[i].located,
                     retail_price |-> rows[i].retail_price]]

\* sample_interval = max(1, len(route_points) // 100)
MapSampleInterval(points) ==
    IF Len(points) \div 100 > 1 THEN Len(points) \div 100 ELSE 1

\* (mutant) a vertex as near as the nearest so far replaces it
AsNearAsOrNearer(dist, min_distance) == dist <= min_distance

\* if dist < min_distance
Nearer(dist, min_distance) == dist < min_distance

\* for i, route_point in enumerate(sampled_points): min_distance and
\* closest_point_idx after the loop has gone over the sampled indices lo..hi
\* (0-based) from min_distance = float('inf'), closest_point_idx = 0.  The
\* outcome over lo..hi is that over lo..mid, replaced by the outcome over
\* mid + 1..hi when the loop's test lets the later distance in.
RECURSIVE ClosestIn(_, _, _, _)
ClosestIn(coordinates, points, lo, hi) ==
    IF lo > hi
    THEN [min_distance |-> Infinity, closest_point_idx |-> 0]
    ELSE IF lo = hi
    THEN LET actual_idx == lo * MapSampleInterval(points)
             dist == HaversineDistance(coordinates, points[actual_idx + 1])
         IN  IF Nearer(dist, Infinity)
             THEN [min_distance |-> dist, closest_point_idx |-> actual_idx]
             ELSE [min_distance |-> Infinity, closest_point_idx |-> 0]
    ELSE LET mid == (lo + hi) \div 2
             first == ClosestIn(coordinates, points, lo, mid)
             second == ClosestIn(coordinates, points, mid + 1, hi)
         IN  IF Nearer(second.min_distance, first.min_distance)
             THEN second ELSE first

\* sum(haversine_distance(route_points[i], route_points[i + 1])
\*     for i in range(n))
SegmentSum(points, n) ==
    SumOver([m \in 1..n |-> HaversineDistance(points[m], points[m + 1])], 1, n)

\* the dict appended for a station that has coordinates
StationPosition(station, points) ==
    LET sampled == (Len(points) + MapSampleInterval(points) - 1)
                       \div MapSampleInterval(points)
        closest == ClosestIn(<< station.latitude, station.longitude >>,
                             points, 0, sampled - 1)
        last == Len(points) - 1
    IN  [station |-> station.id,
         distance_from_start |->
             SegmentSum(points,
                        IF closest.closest_point_idx < last
                        THEN closest.closest_point_idx ELSE last),
         price |-> station.retail_price,
         detour_distance |-> closest.min_distance]

\* the list built by the loop over the stations
RECURSIVE StationPositions(_, _)
StationPositions(stations, points) ==
    IF stations = << >> THEN << >>
    ELSE IF ~HasCoordinates(Head(stations))
    THEN StationPositions(Tail(stations), points)
    ELSE << StationPosition(Head(stations), points) >>
             \o StationPositions(Tail(stations), points)

\* _map_stations_to_route(stations, route_points)
MapStations ==
    /\ station_map = NotMapped
    /\ stations_near_route = NotCalled
    /\ cumulative = NotCalled
    /\ \E points \in MapRouteSet, n \in 0..MaxCatalog :
           \E rows \in [1..n -> MapStationRows] :
               /\ route_points' = points
               /\ station_map' =
                      [stations |-> MapStationList(n, rows),
                       outcome |-> "returned",
                       value |-> StationPositions(MapStationList(n, rows),
                                                  points)]
    /\ UNCHANGED << catalog, stations_near_route, cumulative >>
    /\ UNCHANGED notGeo

NextMap == MapStations

SpecMap == Init /\ [][NextMap]_geoVars

\* ------------------ RouteValidator.validate_vehicle_parameters, __init__
\* A tank capacity is the fraction << numerator, denominator >> of a gallon
\* (denominator positive), or << >> for None.
\* settings.VEHICLE_MPG, settings.VEHICLE_RANGE_MILES and the capacities put
\* to the validator
MpgSet == { -1, 0, 1, 8, 10, 100, 101 }

RangeSet == { -1, 0, 1, 400, 500, 502, 2000, 2001 }

CapacitySet ==
    { << >>, << -1, 1 >>, << 0, 1 >>, << 1, 1 >>, << 40, 1 >>, << 50, 1 >>,
      << 101, 2 >>, << 500, 1 >>, << 501, 1 >> }

\* (mutant) the comparison of range with mpg * capacity is left out
RangeMismatchIgnored(mpg, range_miles, capacity) == FALSE

\* expected_range = mpg * tank_capacity;
\* abs(expected_range - range_miles) > 1.0
RangeMismatch(mpg, range_miles, capacity) ==
    LET difference == mpg * capacity[1] - range_miles * capacity[2]
    IN  (IF difference < 0 THEN -difference ELSE difference) > capacity[2]

\* validate_vehicle_parameters(mpg, range_miles, tank_capacity): "valid", or
\* the exception raised
ValidateVehicleParameters(mpg, range_miles, capacity) ==
    IF mpg <= 0 THEN "ValidationError"
    ELSE IF mpg > 100 THEN "ValidationError"
    ELSE IF range_miles <= 0 THEN "ValidationError"
    ELSE IF range_miles > 2000 THEN "ValidationError"
    ELSE IF capacity = << >> THEN "valid"
    ELSE IF capacity[1] <= 0 THEN "ValidationError"
    ELSE IF capacity[1] > 500 * capacity[2] THEN "ValidationError"
    ELSE IF RangeMismatch(mpg, range_miles, capacity) THEN "ValidationError"
    ELSE "valid"

\* self.tank_capacity = self.vehicle_range / self.vehicle_mpg (mpg # 0)
Quotient(range_miles, mpg) ==
    IF mpg > 0 THEN << range_miles, mpg >> ELSE << -range_miles, -mpg >>

\* the validator is called on a profile
Validate ==
    /\ service = "none"
    /\ \E mpg \in MpgSet, range_miles \in RangeSet, capacity \in CapacitySet :
           /\ profile' = [call |-> "validate_vehicle_parameters", mpg |-> mpg,
                          range_miles |-> range_miles,
                          tank_capacity |-> capacity]
           /\ service' = ValidateVehicleParameters(mpg, range_miles, capacity)
    /\ UNCHANGED notVehicle

\* EnhancedFuelOptimizationService() with the settings holding a range and
\* an mpg: the capacity is derived, then the profile is validated
Construct ==
    /\ service = "none"
    /\ \E mpg \in MpgSet, range_miles \in RangeSet :
           IF mpg = 0
           THEN /\ profile' = [call |-> "__init__", mpg |-> mpg,
                               range_miles |-> range_miles,
                               tank_capacity |-> << >>]
                /\ service' = "ZeroDivisionError"
           ELSE /\ profile' = [call |-> "__init__", mpg |-> mpg,
                               range_miles |-> range_miles,
                               tank_capacity |-> Quotient(range_miles, mpg)]
                /\ service' =
                       IF ValidateVehicleParameters(
                              mpg, range_miles, Quotient(range_miles, mpg))
                          = "valid"
                       THEN "constructed" ELSE "ValidationError"
    /\ UNCHANGED notVehicle

NextVehicle == Validate \/ Construct

SpecVehicle == Init /\ [][NextVehicle]_vehicleVars

\* ------------------------------------------------------ claims: vocabulary
\* the call returned normally
Returned == pc = "done" /\ outcome = "returned"

\* the unrounded projected distance and the price of a returned stop's station
ProjOf(stop) == available_stations[stop.station_id].proj

PriceOf(stop) == available_stations[stop.station_id].retail_price

\* hop k of a plan: start to first stop, stop to stop, last stop to destination
PlanGap(stops, k) ==
    (IF k > Len(stops) THEN total_distance ELSE ProjOf(stops[k]))
    - (IF k = 1 THEN 0 ELSE ProjOf(stops[k - 1]))

\* the returned distance_from_start (hundredths of a mile) before stop k
PreviousDistance(stops, k) ==
    IF k = 1 THEN 0 ELSE stops[k - 1].distance_from_start

\* r (in steps of `unit`) is a nearest multiple of `unit` to the exact value x
IsRounded(r, x, unit) ==
    /\ 2 * (r * unit - x) <= unit
    /\ 2 * (x - r * unit) <= unit

\* no station with coordinates is projected into the first vehicle_range
\* miles of the route
NoStationInFirstRange ==
    \A i \in 1..Len(available_stations) :
        ~(available_stations[i].coordinates
          /\ available_stations[i].proj <= vehicle_range)

C2_ShortRouteReturnsNoStops ==
    (pc = "done" /\ total_distance <= DistanceOn(tank_capacity)) =>
        /\ outcome = "returned"
        /\ result = NoResult

\* C2 amended: for every total_distance not greater than tank_capacity * mpg
\* and every non-empty station list, the call returns no stops and totals 0
\* (an empty list raises NoFuelStationsFoundError instead).
C2_ShortRouteWithStationsReturnsNoStops ==
    (pc = "done" /\ total_distance <= DistanceOn(tank_capacity)) =>
        IF available_stations = << >>
        THEN outcome = "NoFuelStationsFoundError"
        ELSE outcome = "returned" /\ result = NoResult

\* a route of exactly vehicle_range with a station on the way has returned
C2_Witness ==
    /\ Returned
    /\ total_distance = vehicle_range
    /\ \E i \in 1..Len(available_stations) :
           /\ available_stations[i].coordinates
           /\ available_stations[i].proj < total_distance

\* ----------------------------------------------------------------- C3
\* C3 as stated: in every returned stop list the distance_from_start values
\* are strictly increasing, each at most the previous one (0 for the first)
\* plus vehicle_range, and no station appears twice.
C3_StopDistancesStrictlyIncrease ==
    Returned =>
        /\ \A k \in 1..Len(result.stops) :
               /\ result.stops[k].distance_from_start >
                      PreviousDistance(result.stops, k)
               /\ result.stops[k].distance_from_start <=
                      PreviousDistance(result.stops, k)
                      + RoundDistance(vehicle_range)
        /\ Cardinality({ result.stops[k].station_id :
                         k \in 1..Len(result.stops) }) = Len(result.stops)

\* C3 amended: in every returned stop list the stops are in the order made,
\* the projected distances of their stations are strictly increasing, the
\* returned (2-decimal) distance_from_start values are non-decreasing, each
\* at most the previous one (0 for the first) plus vehicle_range, and no
\* station appears twice.
C3_StopDistancesIncrease ==
    Returned =>
        /\ result.stops = selected_stops
        /\ \A k \in 1..Len(result.stops) :
               /\ PlanGap(result.stops, k) > 0
               /\ PlanGap(result.stops, k) <= vehicle_range
               /\ result.stops[k].distance_from_start >=
                      PreviousDistance(result.stops, k)
               /\ result.stops[k].distance_from_start <=
                      PreviousDistance(result.stops, k)
                      + RoundDistance(vehicle_range)
        /\ Cardinality({ result.stops[k].station_id :
                         k \in 1..Len(result.stops) }) = Len(result.stops)

\* two consecutive stops were returned with the same rounded distance
C3_Witness ==
    /\ Returned
    /\ \E k \in 2..Len(result.stops) :
           result.stops[k].distance_from_start =
               result.stops[k - 1].distance_from_start

Stranded ==
    /\ pc = "loop"
    /\ LoopCondition
    /\ ~CanReachDestination
    /\ ReachableStations(station_positions, current_position,
                         vehicle_range) = << >>

C6_CheapestThenNearest ==
    last_window.stations # << >> =>
        /\ \E k \in 1..Len(last_window.stations) :
               last_window.stations[k] = last_window.best
        /\ \A k \in 1..Len(last_window.stations) :
               \/ last_window.stations[k].price > last_window.best.price
               \/ /\ last_window.stations[k].price = last_window.best.price
                  /\ last_window.stations[k].distance_from_start >=
                         last_window.best.distance_from_start

\* a stop was chosen among two equally cheap candidates at different
\* distances, the farther one first in the caller's list
C6_Witness ==
    /\ last_window.stations # << >>
    /\ \E i, j \in 1..Len(available_stations) :
           /\ i < j
           /\ available_stations[j].id = last_window.best.station
           /\ available_stations[i].coordinates
           /\ available_stations[i].retail_price = last_window.best.price
           /\ available_stations[i].proj > last_window.best.distance_from_start
           /\ available_stations[i].proj <= last_window.from + effective_range

\* ----------------------------------------------------------------- C7
\* C7 as stated: the returned total gallons equals the sum of the 'gallons'
\* values of the returned stops and the returned total cost the sum of their
\* 'cost' values.
C7_TotalsEqualSumOfStops ==
    Returned =>
        /\ result.total_gallons = SumOfStopGallons(result.stops)
        /\ result.total_cost = SumOfStopCosts(result.stops)

\* the exact gallons added at stop k of a plan, and their exact cost
ExactGallons(stops) == [k \in 1..Len(stops) |-> FuelFor(PlanGap(stops, k))]

ExactCosts(stops) ==
    [k \in 1..Len(stops) |-> FuelFor(PlanGap(stops, k)) * PriceOf(stops[k])]

\* C7 amended: the returned total gallons is the 2-decimal rounding of the
\* sum of the exact gallons added at the returned stops, and the returned
\* total cost the 2-decimal rounding of the sum of exact gallons * price;
\* each stop's 'gallons' and 'cost' are the roundings of its own exact
\* values, so the sums of the stops' rounded values may differ from the
\* totals by rounding.
C7_TotalsAreRoundedExactSums ==
    Returned =>
        /\ IsRounded(result.total_gallons,
                     SumOver(ExactGallons(result.stops), 1, Len(result.stops)),
                     FuelUnitsPerGallon \div 100)
        /\ IsRounded(result.total_cost,
                     SumOver(ExactCosts(result.stops), 1, Len(result.stops)),
                     CostUnitsPerCent)
        /\ \A k \in 1..Len(result.stops) :
               /\ IsRounded(result.stops[k].gallons,
                            ExactGallons(result.stops)[k],
                            FuelUnitsPerGallon \div 100)
               /\ IsRounded(result.stops[k].cost,
                            ExactCosts(result.stops)[k], CostUnitsPerCent)

\* a plan was returned whose stops' rounded gallons do not add up to the
\* returned total
C7_Witness ==
    /\ Returned
    /\ result.total_gallons # SumOfStopGallons(result.stops)

\* ----------------------------------------------------------------- C8
\* the input of the worked example: 600 miles, stations at 100, 300 and 450
\* miles priced 4.00, 3.00 and 3.50, in any list order
WorkedExample ==
    /\ total_distance = Miles(600)
    /\ Len(available_stations) = 3
    /\ { << available_stations[i].coordinates, available_stations[i].proj,
            available_stations[i].retail_price >> : i \in 1..3 }
       = { << TRUE, Miles(100), 4000 >>, << TRUE, Miles(300), 3000 >>,
           << TRUE, Miles(450), 3500 >> }

\* C8: on the worked example the call returns exactly one stop, at 300 miles,
\* adding 30 gallons at 3.00 for 90.00, with totals 90.00 and 30.
C8_WorkedExampleOneStop ==
    (pc = "done" /\ WorkedExample) =>
        /\ outcome = "returned"
        /\ Len(result.stops) = 1
        /\ ProjOf(result.stops[1]) = Miles(300)
        /\ result.stops[1].distance_from_start = 30000
        /\ result.stops[1].price_per_gallon = 3000
        /\ result.stops[1].gallons = 3000
        /\ result.stops[1].cost = 9000
        /\ result.total_cost = 9000
        /\ result.total_gallons = 3000

\* the worked example has been planned
C8_Witness == pc = "done" /\ WorkedExample

\* ----------------------------------------------------------------- C9
\* the stations of a set of list indices that lie before a position
Before(S, position) ==
    { j \in S : available_stations[j].proj < position }

\* the position a vehicle stopping at the stations of S leaves from to reach
\* `position`: the last stop before it, or the start
PreviousStop(S, position) ==
    IF Before(S, position) = {} THEN 0
    ELSE LET j == CHOOSE j \in Before(S, position) :
                      \A m \in Before(S, position) :
                          available_stations[m].proj <= available_stations[j].proj
         IN  available_stations[j].proj

\* stopping at exactly the stations of S, in ascending order, completes the
\* route with every hop at most vehicle_range
FeasiblePlan(S) ==
    /\ \A i \in S :
           /\ available_stations[i].coordinates
           /\ available_stations[i].proj < total_distance
           /\ available_stations[i].proj
                  - PreviousStop(S, available_stations[i].proj) <= vehicle_range
           /\ \A j \in S : i # j =>
                  available_stations[i].proj # available_stations[j].proj
    /\ total_distance - PreviousStop(S, total_distance) <= vehicle_range

\* the cost of that plan, the tank being filled at each stop
RECURSIVE PlanCostOver(_, _)
PlanCostOver(S, rest) ==
    IF rest = {} THEN 0
    ELSE LET i == CHOOSE i \in rest : TRUE
         IN  FuelFor(available_stations[i].proj
                     - PreviousStop(S, available_stations[i].proj))
                 * available_stations[i].retail_price
             + PlanCostOver(S, rest \ {i})

\* C9: whenever find_optimal_fuel_stops returns normally, its total cost is
\* not greater than the cost of any other ascending sequence of the supplied
\* stations that completes the route with every hop at most vehicle_range,
\* filling the tank at each stop.
C9_TotalCostIsMinimal ==
    (Returned /\ Len(available_stations) <= MaxStations + 1) =>
        \A S \in SUBSET (1..Len(available_stations)) :
            FeasiblePlan(S) =>
                result.total_cost <= RoundCost(PlanCostOver(S, S))

\* ----------------------------------------------------------------- C10
\* C10: every stop selected by find_optimal_fuel_stops of services.py lies
\* within vehicle_range of the previous position, so the fuel on arrival is
\* never negative and no stop adds more gallons than tank_capacity.
C10_BasicStopsWithinRange ==
    last_window.stations # << >> =>
        /\ last_window.best.distance_from_start - last_window.from
               <= vehicle_range
        /\ last_window.fuel_on_arrival >= 0
        /\ tank_capacity - last_window.fuel_on_arrival <= tank_capacity

\* ----------------------------------------------------------------- C11
\* C11: find_optimal_fuel_stops of services.py returns zero stops and zero
\* cost for every route whose total_distance is not greater than
\* tank_capacity * mpg, whatever stations are supplied.
C11_BasicShortRouteReturnsNoStops ==
    (Returned /\ total_distance <= DistanceOn(tank_capacity)) =>
        /\ result.stops = << >>
        /\ result.total_cost = 0

\* ----------------------------------------------------------------- C12
\* the last invocation made
LastAttempt == attempts[Len(attempts)]

\* C12: a call through retry_on_failure(max_retries = n), n >= 1, invokes the
\* wrapped function at most n times; it returns at the first success with no
\* further invocation; when all n invocations fail it raises the last
\* failure; a timeout or transport failure of geocode_address / get_route at
\* the last attempt surfaces as RouteServiceUnavailableError.
C12_RetryIsBounded ==
    max_retries >= 1 =>
        /\ invocations <= max_retries
        /\ Len(attempts) = invocations
        /\ \A k \in 1..(Len(attempts) - 1) : attempts[k].result # "ok"
        /\ retry_pc = "running" => invocations < max_retries
        /\ retry_pc = "done" =>
               /\ invocations >= 1
               /\ IF LastAttempt.result = "ok"
                  THEN retry_outcome = "returned"
                  ELSE /\ invocations = max_retries
                       /\ retry_outcome = LastAttempt.result
               /\ LastAttempt.response \in { "timeout", "connection_error" } =>
                      retry_outcome = "RouteServiceUnavailableError"

\* three attempts were made, the earlier ones failing otherwise, the last
\* timing out
C12_Witness ==
    /\ retry_pc = "done"
    /\ max_retries = 3
    /\ invocations = 3
    /\ attempts[1].response = "rate_limited"
    /\ LastAttempt.response = "timeout"
    /\ retry_outcome = "RouteServiceUnavailableError"

\* ----------------------------------------------------------------- C13
\* C13: when a call of geocode_address / get_route ends with
\* LocationNotFoundError, NoRouteFoundError or a validation error, the
\* external service was contacted at most once, the function was invoked
\* once and no backoff delay was spent.
C13_DataErrorsAreNotRetried ==
    (/\ retry_pc = "done"
     /\ retry_outcome \in { "LocationNotFoundError", "NoRouteFoundError",
                            "ValidationError" }) =>
        /\ contacts <= 1
        /\ invocations = 1
        /\ slept = 0

\* ----------------------------------------------------------------- C14
\* the plan of a normalized pair in the fixed world
PlanFor(start_location, end_location) ==
    LET route_data == Road(Gazetteer(start_location), Gazetteer(end_location))
    IN  [start_location |-> start_location,
         end_location |-> end_location,
         start_coordinates |-> Gazetteer(start_location),
         end_coordinates |-> Gazetteer(end_location),
         route |-> route_data,
         fuel_stops |-> FuelPlan(route_data).fuel_stops,
         summary |-> [total_distance_miles |-> route_data.distance_miles,
                      total_fuel_cost |-> FuelPlan(route_data).total_cost,
                      total_fuel_gallons |-> FuelPlan(route_data).total_gallons,
                      number_of_stops |-> Len(FuelPlan(route_data).fuel_stops),
                      stations_searched |->
                          FuelPlan(route_data).stations_searched]]

\* C14: a plan_route call with use_cache = True that finds the cache holding
\* a plan returns the plan of its own normalized (start, end) pair and makes
\* no call to the geocoder, the route provider or the station catalog; every
\* call that returns, returns the plan of its own pair.
C14_GetOrComputeOnThePair ==
    \A r \in Requests :
        (plan_calls[r].pc = "done" /\ plan_calls[r].outcome = "returned"
         /\ plan_calls[r].use_cache) =>
            /\ plan_calls[r].result =
                   PlanFor(plan_calls[r].start_location,
                           plan_calls[r].end_location)
            /\ plan_calls[r].hit => plan_calls[r].calls = 0
            /\ ~plan_calls[r].hit => plan_calls[r].calls > 0

\* ----------------------------------------------------------------- C15
\* both calls have passed validation with the same normalized pair
SamePair ==
    /\ \A r \in Requests :
           /\ plan_calls[r].pc # "idle"
           /\ plan_calls[r].outcome # "ValidationError"
    /\ plan_calls[1].start_location = plan_calls[2].start_location
    /\ plan_calls[1].end_location = plan_calls[2].end_location

C16_PlanIndependentOfListOrder ==
    (pc = "done" /\ previous_run.made) =>
        /\ outcome = previous_run.outcome
        /\ [k \in 1..Len(result.stops) |-> result.stops[k].station_id]
               = previous_run.stations
        /\ result.total_cost = previous_run.total_cost
        /\ result.total_gallons = previous_run.total_gallons

\* ----------------------------------------------------------------- C17
\* the positions of the characters that end a value
ValueEnds(str) == { k \in 1..Len(str) : str[k] - 63 < 32 }

\* the string stops in the middle of a coordinate: its last character
\* announces a continuation, or a latitude has no longitude
Truncated(str) ==
    /\ str # << >>
    /\ \/ str[Len(str)] - 63 >= 32
       \/ Cardinality(ValueEnds(str)) % 2 = 1

\* C17: decode_polyline returns an empty list for the empty string, and for
\* every string truncated in the middle of a coordinate it fails with an
\* error and gives no coordinates at all; any other string is decoded into
\* one coordinate per pair of values.
C17_TruncatedPolylineFails ==
    decoded # NotCalled =>
        /\ encoded = << >> => decoded = [outcome |-> "returned", value |-> << >>]
        /\ Truncated(encoded) =>
               decoded = [outcome |-> "ValueError", value |-> << >>]
        /\ ~Truncated(encoded) =>
               /\ decoded.outcome = "returned"
               /\ 2 * Len(decoded.value) = Cardinality(ValueEnds(encoded))

\* a string holding one whole coordinate and then a latitude cut in the
\* middle of its continuation sequence was put to the decoder
C17_Witness ==
    /\ decoded.outcome = "ValueError"
    /\ Len(encoded) = 4
    /\ { 1, 2 } \subseteq ValueEnds(encoded)
    /\ encoded[4] - 63 >= 32

\* ----------------------------------------------------------------- C18
\* the station lies within max_distance_miles of some sampled route point
WithinReach(station) ==
    \E k \in 1..Len(SampledPoints(route_points)) :
        LET point == SampledPoints(route_points)[k]
            dlat == station.latitude - point[1]
            dlon == station.longitude - point[2]
        IN  dlat * dlat + dlon * dlon <= max_distance_miles * max_distance_miles

\* the station is a row the bounding-box query of some sampled point selects
InSomeBox(station) ==
    \E k \in 1..Len(SampledPoints(route_points)) :
        InBoundingBox(SampledPoints(route_points)[k], station)

C19_CumulativeHasInputLength ==
    cumulative.outcome = "returned" =>
        /\ Len(cumulative.value) = Len(route_points)
        /\ \A i \in 1..Len(cumulative.value) :
               cumulative.value[i] =
                   SumOver([k \in 1..(i - 1) |->
                               HaversineDistance(route_points[k],
                                                 route_points[k + 1])],
                           1, i - 1)
        /\ \A i \in 1..(Len(cumulative.value) - 1) :
               cumulative.value[i] <= cumulative.value[i + 1]

\* ----------------------------------------------------------------- C20
\* mpg, range or a given tank capacity is not positive, or the range differs
\* from mpg * capacity by more than 1.0
BadProfile ==
    \/ profile.mpg <= 0
    \/ profile.range_miles <= 0
    \/ /\ profile.tank_capacity # << >>
       /\ \/ profile.tank_capacity[1] <= 0
          \/ profile.mpg * profile.tank_capacity[1]
                 - profile.range_miles * profile.tank_capacity[2]
                 > profile.tank_capacity[2]
          \/ profile.range_miles * profile.tank_capacity[2]
                 - profile.mpg * profile.tank_capacity[1]
                 > profile.tank_capacity[2]

\* C20: validate_vehicle_parameters raises ValidationError whenever mpg,
\* range or tank capacity is not positive or range differs from mpg *
\* capacity by more than 1.0, and EnhancedFuelOptimizationService is never
\* constructed with such a profile: its constructor fails before any
\* planning can run.
C20_BadProfileIsRejected ==
    /\ (profile.call = "validate_vehicle_parameters" /\ BadProfile) =>
           service = "ValidationError"
    /\ (profile.call = "__init__" /\ BadProfile) =>
           service \in { "ValidationError", "ZeroDivisionError" }
    /\ service = "constructed" =>
           /\ profile.mpg > 0
           /\ profile.range_miles > 0
           /\ profile.tank_capacity # << >>
           /\ profile.tank_capacity[1] > 0
           /\ ~BadProfile

\* the validator met a profile of positive values whose range is more than
\* one mile away from mpg * capacity
C20_Witness ==
    /\ profile.call = "validate_vehicle_parameters"
    /\ service = "ValidationError"
    /\ profile.mpg = 10
    /\ profile.range_miles = 502
    /\ profile.tank_capacity = << 50, 1 >>

\* ----------------------------------------------------------------- C21
\* C21: in every state of the planning loop 0 <= current_fuel <=
\* tank_capacity, and current_fuel is tank_capacity at the start and after
\* every stop; the negative-fuel check that raises InsufficientRangeError
\* is never passed with a negative current_fuel.
C21_FuelStaysInTank ==
    /\ 0 <= current_fuel
    /\ current_fuel <= tank_capacity
    /\ pc = "loop" => current_fuel = tank_capacity

\* ----------------------------------------------------------------- C22
\* the stop made by this step lies in (current_position, current_position +
\* range]
StopWithin(range) ==
    /\ current_position < current_position'
    /\ current_position' <= current_position + range

\* C22: a stop is taken from the safety-margin window (current_position,
\* current_position + effective_range] whenever a remaining station lies in
\* it, and from (current_position, current_position + vehicle_range] only
\* when the first window is empty; the run does not fail while the wider
\* window holds a station.
C22_StopComesFromTheWindow ==
    [][ pc = "loop" =>
          /\ Len(selected_stops') > Len(selected_stops) =>
                 IF ReachableStations(station_positions, current_position,
                                      effective_range) # << >>
                 THEN StopWithin(effective_range)
                 ELSE StopWithin(vehicle_range)
          /\ outcome' = "InsufficientRangeError" =>
                 ReachableStations(station_positions, current_position,
                                   vehicle_range) = << >> ]_vars

\* ----------------------------------------------------------------- C28
\* projected distances of the supplied stations that have coordinates
SuppliedPositions ==
    { available_stations[k].proj :
          k \in { i \in 1..Len(available_stations) :
                      available_stations[i].coordinates } }

\* some ascending sequence of supplied stations has every gap (start to
\* first, consecutive stations, last to destination) at most vehicle_range
FeasiblePlanExists ==
    \E S \in SUBSET SuppliedPositions :
        /\ S # {}
        /\ \E first \in S : first <= vehicle_range
        /\ \A x \in S :
               \/ /\ \A y \in S : y <= x
                  /\ total_distance - x <= vehicle_range
               \/ \E y \in S : x < y /\ y - x <= vehicle_range

\* C28: the greedy choice never strands the vehicle: when a feasible plan
\* exists and the stations are fewer than the iteration cap, the planner
\* returns normally; InsufficientRangeError is raised only when no feasible
\* plan exists.
C28_FeasibleRouteIsPlanned ==
    (pc = "done" /\ Len(available_stations) < max_iterations
        /\ FeasiblePlanExists) => outcome = "returned"

\* ----------------------------------------------------------------- C23
\* stations that _map_stations_to_route projects
Projected == MapStationsToRoute(available_stations)

\* C23: both planners terminate: every pass through the loop body either
\* ends the loop or strictly increases current_position and removes one
\* station from the working list, so the body runs at most (number of
\* projected stations + 1) times, whatever the iteration cap.
C23_LoopMakesProgress ==
    /\ [][ pc = "loop" =>
              \/ pc' = "done"
              \/ /\ pc' = "loop"
                 /\ current_position' > current_position
                 /\ Len(station_positions') = Len(station_positions) - 1
                 /\ Len(selected_stops') = Len(selected_stops) + 1 ]_vars
    /\ [](pc \in { "loop", "done" } /\ available_stations # << >> =>
              /\ Len(selected_stops) + Len(station_positions) = Len(Projected)
              /\ planner = "enhanced" =>
                     /\ iteration <= Len(Projected) + 1
                     /\ pc = "loop" => iteration = Len(selected_stops)
                     /\ pc = "done" => iteration <= Len(selected_stops) + 1)

\* a run has ended after a stop at every one of MaxStations projected
\* stations: the working list is used up
C23_Witness ==
    /\ pc = "done"
    /\ Len(Projected) = MaxStations
    /\ Len(selected_stops) = Len(Projected)
    /\ station_positions = << >>

\* ----------------------------------------------------------------- C24
\* the call run to its end with nothing else running
RECURSIVE RunToEnd(_, _)
RunToEnd(run, positions) ==
    IF run.pc = "done" THEN run
    ELSE RunToEnd(LoopPass(run, positions).run,
                  LoopPass(run, positions).positions)

RunAlone(distance, stations) ==
    RunToEnd(FreshRun(distance, 0),
             SortByDistance(MapStationsToRoute(stations)))

\* C24: a planning run consumes stations only in its own working list: the
\* station list it was given stays as it was, a station removed by one run
\* remains selectable in the other, and each of two interleaved runs over
\* the same stations ends as it does when run alone.
C24_RunsDoNotInterfere ==
    /\ [][given_stations # << >> => given_stations' = given_stations]_runVars
    /\ [](\A r \in Requests :
              runs[r].pc = "done" =>
                  /\ runs[r].outcome =
                         RunAlone(runs[r].total_distance, given_stations).outcome
                  /\ runs[r].result =
                         RunAlone(runs[r].total_distance, given_stations).result)

\* one run has ended after a stop at a station that the other run, still in
\* its loop, has already removed from its working list
C24_Witness ==
    \E r, o \in Requests :
        /\ r # o
        /\ runs[r].pc = "done"
        /\ runs[r].outcome = "returned"
        /\ runs[o].pc = "loop"
        /\ \E i \in 1..Len(runs[r].selected_stops) :
           \E j \in 1..Len(runs[o].selected_stops) :
               runs[r].selected_stops[i].station_id =
                   runs[o].selected_stops[j].station_id

\* ----------------------------------------------------------------- C25
\* the steps of plan_route in the order of the source
StepOrder ==
    << "validate", "cache_get", "geocode_start", "geocode_end", "get_route",
       "decode", "find_stations", "plan_stops", "cache_set" >>

\* the step a call fails in, for every exception it can end with
FailingSteps(exception) ==
    CASE exception = "ValidationError" -> { "validate", "get_route" }
      [] exception = "LocationNotFoundError" ->
             { "geocode_start", "geocode_end" }
      [] exception = "RouteServiceUnavailableError" ->
             { "geocode_start", "geocode_end", "get_route" }
      [] exception = "ValueError" -> { "decode" }
      [] exception = "NoFuelStationsFoundError" -> { "find_stations" }
      [] exception = "InsufficientRangeError" -> { "plan_stops" }

\* C25: on a cache miss plan_route performs its steps in the fixed order
\* validate, cache lookup, geocode start, geocode end, get route, decode,
\* locate stations, plan stops, write cache; a failing step is the last step
\* of the call: failed validation precedes every cache and external call,
\* and the stop planner is never invoked after the locator found nothing.
C25_StepsInFixedOrder ==
    \A r \in Requests :
        LET call == plan_calls[r]
        IN  /\ call.use_cache =>
                   call.steps = SubSeq(StepOrder, 1, Len(call.steps))
            /\ ~call.use_cache =>
                   call.steps = << "validate" >>
                                    \o SubSeq(StepOrder, 3, Len(call.steps) + 1)
            /\ (call.pc = "done" /\ call.outcome # "returned") =>
                   /\ call.steps[Len(call.steps)] \in FailingSteps(call.outcome)
                   /\ call.hit = FALSE
            /\ (\E k \in 1..Len(call.steps) : call.steps[k] = "plan_stops") =>
                   call.stations_found > 0
            /\ (call.pc = "done" /\ call.outcome = "ValidationError"
                    /\ call.steps = << "validate" >>) =>
                   call.calls = 0 /\ call.cache_key = << >>

\* a call that missed the cache has gone through every step, and the other
\* call has ended in the locator
C25_Witness ==
    \E r, o \in Requests :
        /\ plan_calls[r].steps = StepOrder
        /\ plan_calls[r].outcome = "returned"
        /\ plan_calls[o].outcome = "NoFuelStationsFoundError"

\* ----------------------------------------------------------------- C29
\* a plan with every part computed
CompletePlan(plan) ==
    /\ plan.start_coordinates # NoCoords
    /\ plan.end_coordinates # NoCoords
    /\ plan.route # NoRouteData
    /\ plan.summary.stations_searched > 0
    /\ plan.summary.number_of_stops = Len(plan.fuel_stops)

\* the call ended with an exception
Failed(call) == call.pc = "done" /\ call.outcome # "returned"

\* C29: a failed planning request caches no plan: the step in which a call
\* raises leaves the cache as it is, a failed call has never written the
\* cache, and the cache only ever holds complete plans.
C29_FailedRequestCachesNothing ==
    /\ [][ \A r \in Requests :
               (~Failed(plan_calls[r]) /\ Failed(plan_calls'[r])) =>
                   cache' = cache ]_cacheVars
    /\ [](\A r \in Requests :
              Failed(plan_calls[r]) =>
                  \A k \in 1..Len(plan_calls[r].steps) :
                      plan_calls[r].steps[k] # "cache_set")
    /\ [](\A key \in DOMAIN cache : CompletePlan(cache[key]))

\* a call has failed in the stop planner with its key absent from the cache
\* while the other call has stored a plan
C29_Witness ==
    \E r, o \in Requests :
        /\ plan_calls[r].outcome = "InsufficientRangeError"
        /\ plan_calls[r].use_cache
        /\ ~CacheHolds(plan_calls[r].cache_key)
        /\ plan_calls[o].outcome = "returned"
        /\ plan_calls[o].use_cache
        /\ CacheHolds(plan_calls[o].cache_key)

\* ----------------------------------------------------------------- C30
\* C30: plan cache keys do not collide: two requests whose normalized
\* (start_location, end_location) pairs differ never have the same cache
\* key.
C30_CacheKeysDoNotCollide ==
    \A r, o \in Requests :
        (plan_calls[r].use_cache /\ plan_calls[o].use_cache
         /\ plan_calls[r].cache_key # << >>
         /\ plan_calls[r].cache_key = plan_calls[o].cache_key) =>
            /\ plan_calls[r].start_location = plan_calls[o].start_location
            /\ plan_calls[r].end_location = plan_calls[o].end_location

\* ----------------------------------------------------------------- C26
\* 0-based indices of the vertices the function looks at
SampledIndices ==
    { i \in 0..(Len(route_points) - 1) :
          i % MapSampleInterval(route_points) = 0 }

\* the stations of the input list that have coordinates, in input order
WithCoordinates == SelectSeq(station_map.stations, HasCoordinates)

\* position records vertex i as the nearest sampled vertex of the station,
\* the first of the equally near ones
AssignedTo(position, station, i) ==
    LET DistanceTo(j) ==
            HaversineDistance(<< station.latitude, station.longitude >>,
                              route_points[j + 1])
    IN  /\ position.detour_distance = DistanceTo(i)
        /\ \A j \in SampledIndices : DistanceTo(j) >= DistanceTo(i)
        /\ \A j \in SampledIndices : j < i => DistanceTo(j) > DistanceTo(i)
        /\ position.distance_from_start =
               SumOver([m \in 1..i |->
                           HaversineDistance(route_points[m],
                                             route_points[m + 1])], 1, i)

\* C26: _map_stations_to_route assigns each station with coordinates to the
\* sampled route vertex nearest to it, the first such vertex winning among
\* equally near ones; distance_from_start is the full-resolution cumulative
\* distance from the first route point to that vertex, detour_distance the
\* minimizing distance; the output keeps the input order of the stations.
C26_StationsMapToNearestVertex ==
    (station_map.outcome = "returned" /\ route_points # << >>) =>
        /\ Len(station_map.value) = Len(WithCoordinates)
        /\ \A k \in 1..Len(station_map.value) :
               /\ station_map.value[k].station = WithCoordinates[k].id
               /\ \E i \in SampledIndices :
                      AssignedTo(station_map.value[k], WithCoordinates[k], i)

\* on the route of two hundred points, sampled at every second vertex, a
\* station lies between two sampled vertices, equally near to both, behind a
\* station without coordinates
C26_Witness ==
    /\ station_map.outcome = "returned"
    /\ Len(route_points) = 200
    /\ Len(station_map.stations) > Len(station_map.value)
    /\ \E k \in 1..Len(station_map.value) :
           /\ station_map.value[k].detour_distance = 100
           /\ station_map.value[k].distance_from_start = 2000

\* ----------------------------------------------------------------- C27
\* C27: for every interleaving of concurrent /api/ requests of one client at
\* most rate_limit_per_minute requests are admitted during the lifetime of
\* one minute counter and at most rate_limit_per_hour during the lifetime
\* of one hour counter.
C27_LimitsHoldUnderConcurrency ==
    /\ minute_key # 0 => admitted_minute <= rate_limit_per_minute
    /\ hour_key # 0 => admitted_hour <= rate_limit_per_hour

====
